---- MODULE Spec2Model ----
(***************************************************************************)
(* The step-cache reconciliation and rate-limit governor of lalune_engine: *)
(* the Redis step cache (src/src/cache/mod.rs), the range planning and     *)
(* chunked live fetch (src/src/fitbit/mod.rs) and the helpers of           *)
(* src/src/utils.rs.                                                       *)
(*                                                                         *)
(* Dates are day numbers since the Unix epoch, instants are seconds since  *)
(* the epoch.  Option<T> is a sequence of length 0 (None) or 1 (Some).     *)
(* A HashMap<NaiveDate, u32> is a function from a finite set of dates.     *)
(***************************************************************************)
EXTENDS Integers, Sequences, FiniteSets, TLC

VARIABLES
  now,          \* the wall clock, Utc::now(), in seconds
  stepsKey,     \* per user: the sorted set fitbit_steps:<user> and its TTL
  queryLog,     \* per user: the list fitbit_user_queries:<user> and its TTL
  resetMarker,  \* the process-wide key fitbit_ratelimit_reset and its TTL
  credentials,  \* per user: the row of fitbit_data
  task,         \* per spawned task: the command it executes and its position
  httpSent,     \* per user: HTTP requests sent upstream in the upstream's window
  commands,     \* number of operations started (bounded in the guards)
  probe         \* the last direct call of an operation and what it returned

vars == <<now, stepsKey, queryLog, resetMarker, credentials, task, httpSent,
          commands, probe>>

----------------------------------------------------------------------------
(* Program constants *)

\* RATELIMIT: 145 queries per user per hour.
Quota == 145
\* The rate-limit window of the upstream, in seconds ("per hour").
WindowSecs == 3600
\* One upstream call spans at most 364 days.
MaxChunkDays == 364
\* Seconds of a day: NaiveDateTime::new(date, 00:00:00).timestamp().
DaySecs == 86400
\* Expiry of a cached day and of the per-user sorted set: 60 * 60 * 24 * 2.
CacheTtl == 60 * 60 * 24 * 2
\* "Buffer in case of latency" subtracted from the reset instant.
ResetBuffer == 2
\* u16::max_value(), the value safe_convert clamps to.
U16Max == 65535
\* The code point of ':' relative to '0': ':' follows the digits '0'..'9'.
ColonRank == 10

----------------------------------------------------------------------------
(* Bounds of the model *)

\* The day the clock starts on.
StartDay == 19000
\* The clock runs over the days StartDay .. StartDay + MaxDays.
MaxDays == 2
\* Direct calls of the cache's add_steps in the cache specification.
MaxWrites == 3

StartTime == StartDay * DaySecs
\* Seconds into a day at which something can happen.
Offsets == {0, 10, 20, 40}
Instants == {StartTime + d * DaySecs + s : d \in 0..MaxDays, s \in Offsets}

\* The users with a row in fitbit_data.
Users == {"u1", "u2"}
\* The user whose commands the specifications of one user run.
Callers == {"u1"}
StepValues == {50, 100}
\* The count the upstream reports for a day in the engine specifications.
UpstreamCounts == {100}

----------------------------------------------------------------------------
(* Values *)

None == <<>>
Some(x) == <<x>>
IsSome(o) == o # <<>>
Unwrap(o) == o[1]

DateTs(date) == date * DaySecs
DateOf(ts) == ts \div DaySecs
Today(nowTs) == DateOf(nowTs)

EmptyMap == [d \in {} |-> 0]
MapInsert(m, k, v) == [d \in (DOMAIN m) \cup {k} |-> IF d = k THEN v ELSE m[d]]
\* HashMap::extend: the entries of m2 replace those of m1
MapExtend(m1, m2) ==
  [d \in (DOMAIN m1) \cup (DOMAIN m2) |-> IF d \in DOMAIN m2 THEN m2[d] ELSE m1[d]]

SetMax(S) == CHOOSE x \in S : \A y \in S : y <= x

----------------------------------------------------------------------------
(* The Redis sorted set fitbit_steps:<user> *)

\* The decimal digits of a natural number, as format!("{}") prints them.
RECURSIVE Digits(_)
Digits(n) == IF n < 10 THEN <<n>> ELSE Append(Digits(n \div 10), n % 10)

\* The member string format!("{}:{}:{}", steps, date, expire).
MemberString(m) ==
  Digits(m.steps) \o <<ColonRank>> \o Digits(m.date) \o <<ColonRank>> \o Digits(m.expire)

\* Byte-wise comparison of two strings, from position i on.
RECURSIVE LexLessFrom(_, _, _)
LexLessFrom(a, b, i) ==
  IF i > Len(a) THEN i <= Len(b)
  ELSE IF i > Len(b) THEN FALSE
  ELSE IF a[i] # b[i] THEN a[i] < b[i]
  ELSE LexLessFrom(a, b, i + 1)

LexLess(a, b) == LexLessFrom(a, b, 1)

\* The order of a sorted set: by score (the day's timestamp), then by member.
ZLess(a, b) ==
  \/ a.date < b.date
  \/ a.date = b.date /\ LexLess(MemberString(a), MemberString(b))

RECURSIVE SortZ(_)
SortZ(S) ==
  IF S = {} THEN <<>>
  ELSE LET m == CHOOSE x \in S : \A y \in S \ {x} : ZLess(x, y)
       IN <<m>> \o SortZ(S \ {m})

\* A key that does not exist.
EmptyKey == [members |-> {}, expireAt |-> 0]

\* ZRANGEBYSCORE key lo hi
zrangebyscore(key, lo, hi) ==
  SortZ({m \in key.members : lo <= m.date /\ m.date <= hi})

\* ZREM key members: a sorted set left empty is deleted
zrem(key, ms) ==
  IF key.members \ ms = {} THEN EmptyKey
  ELSE [key EXCEPT !.members = key.members \ ms]

\* CacheHandler::add_steps: ZADD key date "steps:date:expire"; EXPIRE key 2 days
add_steps(key, date, steps, nowTs) ==
  [members  |-> key.members \cup
                  {[steps |-> steps, date |-> DateTs(date), expire |-> nowTs + CacheTtl]},
   expireAt |-> nowTs + CacheTtl]

\* A faulty variant of is_expired: the comparison reversed.
is_expired_reversed(m, nowTs) == m.expire > nowTs

\* The test of CacheHandler::get_steps on an entry's embedded expiry.
is_expired(m, nowTs) == m.expire < nowTs

\* utils::parse_steps: (steps, timestamp) to (date, steps)
parse_steps(steps) == [i \in DOMAIN steps |-> <<DateOf(steps[i][2]), steps[i][1]>>]

\* utils::longest_range: the loop over the entries, from current_date on
RECURSIVE longest_range_from(_, _, _)
longest_range_from(current_date, steps, range) ==
  IF steps = <<>> THEN range
  ELSE IF Head(steps)[1] = current_date
       THEN longest_range_from(current_date + 1, Tail(steps),
                               MapInsert(range, Head(steps)[1], Head(steps)[2]))
       ELSE range

longest_range(start_date, steps) == longest_range_from(start_date, steps, EmptyMap)

\* CacheHandler::get_steps, the entries read by ZRANGEBYSCORE
cache_read(key, start_date, end_date) ==
  zrangebyscore(key, DateTs(start_date), DateTs(end_date))

\* CacheHandler::get_steps, the expired members among the entries read
cache_expired(read, nowTs) ==
  {read[i] : i \in {j \in DOMAIN read : is_expired(read[j], nowTs)}}

\* CacheHandler::get_steps, the mapping computed from the entries read
cache_result(read, start_date, nowTs) ==
  LET kept   == SelectSeq(read, LAMBDA m : ~is_expired(m, nowTs))
      tuples == [i \in DOMAIN kept |-> <<kept[i].steps, kept[i].date>>]
  IN longest_range(start_date, parse_steps(tuples))

----------------------------------------------------------------------------
(* Time *)

\* Redis drops a key whose TTL has run out.
ExpireKey(key, nowTs) == IF key.expireAt <= nowTs THEN EmptyKey ELSE key
ExpireLog(log, nowTs) ==
  IF log.expireAt <= nowTs THEN [entries |-> <<>>, expireAt |-> 0] ELSE log

----------------------------------------------------------------------------
(* The query log fitbit_user_queries:<user> and the key fitbit_ratelimit_reset *)

EmptyLog == [entries |-> <<>>, expireAt |-> 0]
NoMarker == [value |-> None, expireAt |-> 0]

\* CacheHandler::get_user_queries: LLEN
get_user_queries(log) == Len(log.entries)

\* CacheHandler::get_last_user_query: LINDEX 0
get_last_user_query(log) ==
  IF log.entries = <<>> THEN None ELSE Some(Head(log.entries))

\* CacheHandler::get_ratelimit_reset: GET, the epoch when the key is absent
get_ratelimit_reset(marker) ==
  IF IsSome(marker.value) THEN Unwrap(marker.value) ELSE 0

\* A faulty variant of add_user_query_marker: the latency buffer is not
\* subtracted.
add_user_query_marker_no_buffer(nowTs, ratelimit_reset) ==
  [value |-> Some(nowTs + ratelimit_reset), expireAt |-> nowTs + ratelimit_reset]

\* CacheHandler::add_user_query, the key fitbit_ratelimit_reset after the
\* pipeline: SETEX fitbit_ratelimit_reset <ratelimit_reset> <now + it - 2>
add_user_query_marker(nowTs, ratelimit_reset) ==
  [value |-> Some(nowTs + ratelimit_reset - ResetBuffer), expireAt |-> nowTs + ratelimit_reset]

\* CacheHandler::add_user_query, the list after the pipeline:
\* LPUSH fitbit_user_queries:<user> <date>; EXPIRE it <ratelimit_reset>
add_user_query_log(log, date, nowTs, ratelimit_reset) ==
  [entries |-> <<date>> \o log.entries, expireAt |-> nowTs + ratelimit_reset]

----------------------------------------------------------------------------
(* The rate-limit governor and the range reconciler *)

\* A faulty variant of safe_convert::<u16>: the truncation of an `as u16` cast.
safe_convert_u16_wrapping(value) == value % (U16Max + 1)

\* utils::safe_convert::<u16>
safe_convert_u16(value) ==
  IF value < 0 THEN 0 ELSE IF value <= U16Max THEN value ELSE U16Max

\* utils::safe_convert::<usize>: every non-negative i64 fits
safe_convert_usize(value) == IF value < 0 THEN 0 ELSE value

\* (f32::from(until_ratelimit_reset) / remaining).ceil() as i64, remaining # 0
request_period(until_ratelimit_reset, remaining) ==
  IF remaining > 0
  THEN (until_ratelimit_reset + remaining - 1) \div remaining
  ELSE -(until_ratelimit_reset \div (-remaining))

\* Fitbit::check_ratelimit: true when the limit has been reached
check_ratelimit(queries) == queries > Quota

Range(start, end) == [start |-> start, end |-> end]

Plan(branch, kind, range) == [branch |-> branch, kind |-> kind, range |-> range]

\* Faulty variants of too_soon: the comparison reversed; the test dropped.
too_soon_reversed(since_last_query, period) == since_last_query > period
too_soon_never(since_last_query, period) == FALSE

\* The comparison of Fitbit::get_live_range that suppresses a live fetch.
too_soon(since_last_query, period) == since_last_query < period

\* Faulty variants of almost_current: the comparison reversed; the operands
\* of the difference swapped.
almost_current_reversed(range_end, cache_end, today) ==
  range_end = today /\ cache_end - range_end < -2
almost_current_swapped(range_end, cache_end, today) ==
  range_end = today /\ range_end - cache_end > -2

\* The test of Fitbit::get_live_range for the "last 2 days" refresh.
almost_current(range_end, cache_end, today) ==
  range_end = today /\ cache_end - range_end > -2

\* Fitbit::get_live_range: request_period, the estimate of how often the
\* upstream can be queried without exceeding the rate limit
min_spacing(queries, ratelimit_reset, current) ==
  safe_convert_usize(
    request_period(safe_convert_u16(ratelimit_reset - current), Quota - queries))

\* Fitbit::get_live_range: since_last_query
since_last_query(last_query, current) == safe_convert_usize(current - last_query)

\* Fitbit::get_live_range, after its three reads of the cache collaborator.
\* kind is "fetch" (Ok(Some(range))), "none" (Ok(None)) or "err"
\* (Err(RateLimitExceeded)); branch names the return statement taken.
get_live_range(queries, last_query, ratelimit_reset, current, range_start, range_end, cache_end) ==
  IF ~IsSome(cache_end)
  THEN Plan("no_cache", "fetch", Some(Range(range_start, range_end)))
  ELSE
    LET remaining == Quota - queries
    IN IF remaining = 0
       THEN Plan("exhausted", "err", None)
       ELSE
         LET period == min_spacing(queries, ratelimit_reset, current)
         IN IF ~IsSome(last_query)
            THEN Plan("no_last", "fetch", Some(Range(range_start, range_end)))
            ELSE
              LET since == since_last_query(Unwrap(last_query), current)
                  ce    == Unwrap(cache_end)
              IN IF too_soon(since, period)
                 THEN Plan("throttled", "none", None)
                 ELSE IF almost_current(range_end, ce, Today(current))
                 THEN Plan("last2", "fetch",
                           Some(Range(Today(current) - 1, Today(current))))
                 ELSE IF range_end = ce
                 THEN Plan("current", "none", None)
                 ELSE Plan("tail", "fetch", Some(Range(ce, range_end)))

----------------------------------------------------------------------------
(* The chunker *)

Min(a, b) == IF a <= b THEN a ELSE b

\* A faulty variant of requests: the quotient rounded down.
requests_floor(difference) ==
  IF difference > MaxChunkDays THEN difference \div MaxChunkDays ELSE 1

\* Fitbit::get_steps: the number of upstream calls for a live range
requests(difference) ==
  IF difference > MaxChunkDays
  THEN (difference + MaxChunkDays - 1) \div MaxChunkDays
  ELSE 1

\* Fitbit::get_steps: the first day of the i-th call (i from 0); start is the
\* start date the command asked for
chunk_start(start, i) == start + i * MaxChunkDays

\* Fitbit::get_steps: the range passed to get_steps_for_range by the i-th
\* iteration of the loop; days_left is difference - 364 * i there
chunk_range(start, difference, i) ==
  LET s == chunk_start(start, i)
  IN Range(s, s + Min(difference - i * MaxChunkDays, MaxChunkDays))

\* Fitbit::get_steps_for_range: the period of a range of num_days days
period_of(num_days) ==
  IF num_days = 0 THEN Some("1d")
  ELSE IF 1 <= num_days /\ num_days <= 6 THEN Some("1w")
  ELSE IF 7 <= num_days /\ num_days <= 27 THEN Some("1m")
  ELSE IF 28 <= num_days /\ num_days <= 89 THEN Some("3m")
  ELSE IF 90 <= num_days /\ num_days <= 179 THEN Some("6m")
  ELSE IF 180 <= num_days /\ num_days <= 364 THEN Some("1y")
  ELSE None

\* Fitbit::get_steps_for_range, up to the upstream call: the error it returns
\* with, or None when the call is made
range_error(queries, start, end, today) ==
  IF check_ratelimit(queries) THEN Some("RateLimitExceeded")
  ELSE IF start > end THEN Some("DateOutOfRange")
  ELSE IF end > today THEN Some("DateOutOfRange")
  ELSE IF ~IsSome(period_of(end - start)) THEN Some("DateOutOfRange")
  ELSE None

----------------------------------------------------------------------------
(* The upstream API and the credential store *)

\* The fitbit-rate-limit-reset header: seconds until the upstream's window ends.
UpstreamReset(nowTs) == WindowSecs - (nowTs % WindowSecs)

\* The first day the upstream holds a count for: the day the user's device
\* was first synchronised.
FirstSync == StartDay - 2

\* The upstream's answer to a steps request: one count per day it holds of the
\* period that ends at `end`; Fitbit::get_steps_for_range keeps the days in
\* range.
UpstreamSteps(start, end, value) ==
  [d \in (IF start < FirstSync THEN FirstSync ELSE start)..end |-> value]

\* A faulty variant of user_token_expired: the token never counts as expired.
user_token_expired_never(cred, nowTs) == FALSE

\* DatabaseHandler::user_token_expired: expires_at - now() < 0
user_token_expired(cred, nowTs) == cred.expiresAt - nowTs < 0

\* A faulty variant of refreshed_credentials: the new refresh token is not
\* stored.
refreshed_credentials_keep_refresh(cred, nowTs, expires_in) ==
  [access |-> cred.access + 1, refresh |-> cred.refresh,
   expiresAt |-> nowTs + expires_in]

\* Fitbit::refresh_token, the row written by update_user_token
refreshed_credentials(cred, nowTs, expires_in) ==
  [access |-> cred.access + 1, refresh |-> cred.refresh + 1,
   expiresAt |-> nowTs + expires_in]

----------------------------------------------------------------------------
(* Text: a string is the sequence of its characters *)

DigitChars == <<"0", "1", "2", "3", "4", "5", "6", "7", "8", "9">>

IsDigit(c) == \E d \in 1..10 : DigitChars[d] = c
DigitValue(c) == (CHOOSE d \in 1..10 : DigitChars[d] = c) - 1

\* i64::to_string of a number that is not negative
ToChars(n) == [i \in DOMAIN Digits(n) |-> DigitChars[Digits(n)[i] + 1]]

RECURSIVE NatFrom(_, _, _)
NatFrom(s, i, acc) ==
  IF i > Len(s) THEN acc ELSE NatFrom(s, i + 1, acc * 10 + DigitValue(s[i]))

\* str::parse::<i64>: an optional sign and at least one digit, nothing else
\* (the literals met here have at most ten digits, so none overflows)
parse_i64(s) ==
  LET signed == s # <<>> /\ Head(s) \in {"+", "-"}
      body   == IF signed THEN Tail(s) ELSE s
  IN IF body = <<>> \/ \E i \in DOMAIN body : ~IsDigit(body[i]) THEN None
     ELSE Some(IF signed /\ Head(s) = "-" THEN 0 - NatFrom(body, 1, 0)
               ELSE NatFrom(body, 1, 0))

\* The position of the k-th separator of s; 0 before the first one and
\* Len(s) + 1 after the last one.
separator_at(s, sep, k) ==
  LET at == {i \in DOMAIN s : s[i] = sep}
  IN IF k = 0 THEN 0
     ELSE IF k > Cardinality(at) THEN Len(s) + 1
     ELSE CHOOSE p \in at : Cardinality({q \in at : q < p}) = k - 1

\* str::split on a one-character separator: the text between consecutive
\* separators; the empty string has one field
split(s, sep) ==
  [k \in 1..(Cardinality({i \in DOMAIN s : s[i] = sep}) + 1) |->
     SubSeq(s, separator_at(s, sep, k - 1) + 1, separator_at(s, sep, k) - 1)]

RECURSIVE join_from(_, _, _)
join_from(fields, sep, i) ==
  IF i > Len(fields) THEN <<>>
  ELSE IF i = Len(fields) THEN fields[i]
  ELSE fields[i] \o <<sep>> \o join_from(fields, sep, i + 1)

\* [String]::join
join(fields, sep) == join_from(fields, sep, 1)

\* The identifiers of users that messages carry, as text.
UserText(u) ==
  CASE u = "u1" -> <<"u", "1">>
    [] u = "u9" -> <<"u", "9">>
    [] OTHER -> <<>>

\* String::to_string of a user identifier: the key of the user's rows
user_id_of(chars) ==
  IF chars = UserText("u1") THEN "u1"
  ELSE IF chars = UserText("u9") THEN "u9" ELSE ""

----------------------------------------------------------------------------
(* Messages of the work queue (utils.rs, decode_message) *)

\* The alphabet of a ULID: Crockford's base 32.
UlidAlphabet ==
  {"0", "1", "2", "3", "4", "5", "6", "7", "8", "9", "A", "B", "C", "D", "E",
   "F", "G", "H", "J", "K", "M", "N", "P", "Q", "R", "S", "T", "V", "W", "X",
   "Y", "Z"}
UlidLen == 26

\* Ulid::from_string as decode_message uses it: 26 characters of the alphabet
ulid_from_string(s) ==
  IF Len(s) = UlidLen /\ \A i \in DOMAIN s : s[i] \in UlidAlphabet
  THEN Some(s) ELSE None

GetStepsText == <<"g", "e", "t", "_", "s", "t", "e", "p", "s">>
RefreshText == <<"r", "e", "f", "r", "e", "s", "h">>

InvalidMessage == [ok |-> FALSE, command |-> <<>>]
GetSteps(user_id, range) ==
  [ok |-> TRUE,
   command |-> [kind |-> "GetSteps", user |-> user_id, start |-> range.start,
                end |-> range.end]]
RefreshCommand(user_id) ==
  [ok |-> TRUE,
   command |-> [kind |-> "RefreshToken", user |-> user_id, start |-> 0, end |-> 0]]

\* A faulty variant of field_count_ok: extra fields are let through.
field_count_atleast(n) == n >= 4

\* decode_message: message_vector.len() != 4 is refused
field_count_ok(n) == n = 4

\* decode_message: (ttl - Utc::now()).num_seconds() < 0; num_seconds rounds
\* toward zero, so with nowTs the whole seconds of the clock this is
\* ttl < nowTs
ttl_expired(ttl, nowTs) == ttl - nowTs < 0

\* decode_message, the match on the command token
decode_command(command, payload) ==
  LET parts == split(payload, ",") IN
  IF command = GetStepsText
  THEN IF Len(parts) # 3 THEN InvalidMessage
       ELSE IF parse_i64(parts[2]) = None \/ parse_i64(parts[3]) = None
       THEN InvalidMessage
       ELSE GetSteps(user_id_of(parts[1]),
                     Range(DateOf(Unwrap(parse_i64(parts[2]))),
                           DateOf(Unwrap(parse_i64(parts[3])))))
  ELSE IF command = RefreshText
  THEN IF Len(parts) # 1 THEN InvalidMessage
       ELSE RefreshCommand(user_id_of(parts[1]))
  ELSE InvalidMessage

\* decode_message: None (the message is dropped), or the coordination id with
\* either a command or the error InvalidMessage
decode_message(message, nowTs) ==
  LET message_vector == split(message, ":")
      coordination_id == ulid_from_string(message_vector[1])
  IN IF coordination_id = None THEN None
     ELSE IF ~field_count_ok(Len(message_vector))
     THEN Some([id |-> Unwrap(coordination_id), result |-> InvalidMessage])
     ELSE IF parse_i64(message_vector[4]) = None
     THEN Some([id |-> Unwrap(coordination_id), result |-> InvalidMessage])
     ELSE IF ttl_expired(Unwrap(parse_i64(message_vector[4])), nowTs) THEN None
     ELSE Some([id |-> Unwrap(coordination_id),
                result |-> decode_command(message_vector[2], message_vector[3])])

----------------------------------------------------------------------------
(* Responses on the wire (utils.rs, encode_response) *)

\* The largest signed 32-bit integer.
I32Max == 2147483647

\* A step count, an unsigned 32-bit integer, as its top bit and the 31 bits
\* below it: the count is hi * 2^31 + lo.
U32(hi, lo) == [hi |-> hi, lo |-> lo]

\* A faulty variant of i32_try_from: a count that does not fit is replaced by
\* the largest value that does.
i32_try_from_saturating(count) ==
  Some(IF count.hi = 1 THEN I32Max ELSE count.lo)

\* i32::try_from(u32): the value when the top bit is clear, else an error
i32_try_from(count) ==
  IF count.hi = 1 THEN None ELSE Some(count.lo)

\* encode_response: the closure that maps an entry of the mapping
clamp_entry(entry) ==
  LET step_count == i32_try_from(entry[2])
  IN IF step_count = None THEN <<entry[1], 0>> ELSE <<entry[1], Unwrap(step_count)>>

RECURSIVE insert_by_date(_, _)
insert_by_date(sorted, entry) ==
  IF sorted = <<>> THEN <<entry>>
  ELSE IF entry[1] < Head(sorted)[1] THEN <<entry>> \o sorted
  ELSE <<Head(sorted)>> \o insert_by_date(Tail(sorted), entry)

RECURSIVE sort_by_date_from(_, _, _)
sort_by_date_from(entries, i, sorted) ==
  IF i > Len(entries) THEN sorted
  ELSE sort_by_date_from(entries, i + 1, insert_by_date(sorted, entries[i]))

\* encode_response: steps.sort_by(|a, b| a.0.cmp(&b.0)); a stable sort
sort_by_date(entries) == sort_by_date_from(entries, 1, <<>>)

RECURSIVE replace_from(_, _, _, _)
replace_from(s, c, to, i) ==
  IF i > Len(s) THEN <<>>
  ELSE (IF s[i] = c THEN to ELSE <<s[i]>>) \o replace_from(s, c, to, i + 1)

\* str::replace of a one-character pattern
replace(s, c, to) == replace_from(s, c, to, 1)

\* A faulty variant of escape: the backslash is replaced last, so the
\* backslashes that the other replacements wrote are doubled.
escape_backslash_last(content) ==
  replace(replace(replace(replace(content, ",", <<"\\", ",">>),
                          ":", <<"\\", ":">>),
                  "\n", <<"\\", "n">>),
          "\\", <<"\\", "\\">>)

\* encode_response: the four replacements, in the order of the code
escape(content) ==
  replace(replace(replace(replace(content, "\\", <<"\\", "\\">>),
                          ",", <<"\\", ",">>),
                  ":", <<"\\", ":">>),
          "\n", <<"\\", "n">>)

\* encode_response: the content of a Steps response; `entries` is the mapping
\* in the order in which the HashMap yields it
steps_content(entries) ==
  LET steps == sort_by_date([i \in DOMAIN entries |-> clamp_entry(entries[i])])
  IN join([i \in DOMAIN steps |-> ToChars(steps[i][2])], ",")

\* encode_response: indication ':' escaped content
encode_response(response) ==
  LET indication == IF response.kind = "Error" THEN <<"1">> ELSE <<"0">>
      content == CASE response.kind = "Steps" -> steps_content(response.entries)
                   [] response.kind = "Refreshed" -> <<"r", "e", "f", "r", "e", "s", "h", "e", "d">>
                   [] response.kind = "Error" -> response.text
  IN indication \o <<":">> \o escape(content)

----------------------------------------------------------------------------
(* Tasks: one per command taken from the work queue (main.rs, listen) *)

Tasks == {1, 2}

\* tokio::spawn: a new command runs in the first slot that is free.
FreeSlot(t) ==
  /\ task[t].pc = "idle"
  /\ \A o \in Tasks : o < t => task[o].pc # "idle"

Steps(m) == [kind |-> "Steps", steps |-> m, error |-> ""]
Refreshed == [kind |-> "Refreshed", steps |-> EmptyMap, error |-> ""]
Error(e) == [kind |-> "Error", steps |-> EmptyMap, error |-> e]

TaskIdle ==
  [pc |-> "idle", cmd |-> "", user |-> "", start |-> 0, end |-> 0, token |-> 0,
   exchange |-> "",
   read |-> <<>>, cached |-> EmptyMap, queries |-> 0, last_query |-> None,
   branch |-> "", live |-> None, i |-> 0, steps |-> EmptyMap,
   fetched |-> EmptyMap, header |-> None, pending |-> {}, result |-> None,
   upstream |-> 0, fetches |-> 0, pre |-> None, planned |-> None]

\* What a command finds when it starts (kept to state frame conditions).
Snapshot(u) ==
  [steps |-> stepsKey[u], log |-> queryLog[u], marker |-> resetMarker,
   cred |-> credentials[u]]

\* The command ends with this response; listen() then replies.
Return(tk, response) == [tk EXCEPT !.pc = "reply", !.result = Some(response)]

\* A faulty variant of ChunkFailed: what was gathered so far is returned.
ChunkFailed_partial(tk, e) == Return(tk, Steps(tk.steps))

\* Fitbit::get_steps: `?` on the result of get_steps_for_range leaves the loop
\* with the error, and execute_command wraps it in Response::Error
ChunkFailed(tk, e) == Return(tk, Error(e))

\* Fitbit::get_steps: the live range is known, the loop over the calls starts
EnterLoop(tk, branch, range) ==
  [tk EXCEPT !.pc = "check_ratelimit", !.branch = branch, !.live = Some(range),
             !.i = 0, !.steps = tk.cached]

\* The range of the call the task is at.
CurrentChunk(tk) ==
  chunk_range(tk.start, Unwrap(tk.live).end - Unwrap(tk.live).start, tk.i)

\* Fitbit::get_steps: steps.extend(...) at the end of an iteration, then the
\* next iteration or Ok(steps)
FinishChunk(tk) ==
  LET merged == MapExtend(tk.steps, tk.fetched)
      cleared == [tk EXCEPT !.steps = merged, !.fetched = EmptyMap,
                            !.pending = {}, !.header = None, !.i = tk.i + 1]
  IN IF tk.i + 1 < requests(Unwrap(tk.live).end - Unwrap(tk.live).start)
     THEN [cleared EXCEPT !.pc = "check_ratelimit"]
     ELSE Return(cleared, Steps(merged))

\* Fitbit::execute_command starts on a GetSteps command
GetStepsTask(u, start, end) ==
  [TaskIdle EXCEPT !.pc = "get_user", !.cmd = "get_steps", !.user = u,
                   !.start = start, !.end = end,
                   !.pre = IF u \in Users THEN Some(Snapshot(u)) ELSE None]

\* Fitbit::execute_command starts on a RefreshToken command
RefreshTask(u) ==
  [TaskIdle EXCEPT !.pc = "refresh", !.cmd = "refresh", !.user = u,
                   !.pre = IF u \in Users THEN Some(Snapshot(u)) ELSE None]

\* listen(): a GetSteps command is decoded and execute_command starts
Dispatch(t, u, start, end) ==
  /\ task[t].pc = "idle"
  /\ task' = [task EXCEPT ![t] = GetStepsTask(u, start, end)]
  /\ UNCHANGED <<now, stepsKey, queryLog, resetMarker, credentials, httpSent, probe>>

\* listen(): the task spawned for a message decodes it; the message is
\* dropped, or refused with a reply, or its command starts
Receive(t) ==
  LET decoded == decode_message(probe.message, now) IN
  /\ FreeSlot(t)
  /\ probe.op = "message"
  /\ probe.state = "queued"
  /\ IF decoded = None
     THEN /\ probe' = [probe EXCEPT !.state = "dropped"]
          /\ UNCHANGED task
     ELSE /\ probe' = [probe EXCEPT !.state = "decoded"]
          /\ task' = [task EXCEPT ![t] =
               LET result == Unwrap(decoded).result
                   c == result.command
               IN IF ~result.ok THEN Return(TaskIdle, Error("InvalidMessage"))
                  ELSE IF c.kind = "GetSteps"
                  THEN GetStepsTask(c.user, c.start, c.end)
                  ELSE RefreshTask(c.user)]
  /\ UNCHANGED <<now, stepsKey, queryLog, resetMarker, credentials, httpSent,
                 commands>>

\* A faulty variant of DbGetUser: a user without a row is answered with no
\* steps.
DbGetUser_lenient(t) ==
  LET tk == task[t] IN
  /\ tk.pc = "get_user"
  /\ task' = [task EXCEPT ![t] =
       IF tk.user \in DOMAIN credentials
       THEN [tk EXCEPT !.pc = "check_token", !.token = credentials[tk.user].access]
       ELSE Return(tk, Steps(EmptyMap))]
  /\ UNCHANGED <<now, stepsKey, queryLog, resetMarker, credentials, httpSent,
                 commands, probe>>

\* Fitbit::execute_command: database_client.get_user
DbGetUser(t) ==
  LET tk == task[t] IN
  /\ tk.pc = "get_user"
  /\ task' = [task EXCEPT ![t] =
       IF tk.user \in DOMAIN credentials
       THEN [tk EXCEPT !.pc = "check_token", !.token = credentials[tk.user].access]
       ELSE Return(tk, Error("UserNotFound"))]
  /\ UNCHANGED <<now, stepsKey, queryLog, resetMarker, credentials, httpSent,
                 commands, probe>>

\* Fitbit::get_steps: check_access_token_expired
CheckTokenExpired(t) ==
  LET tk == task[t] IN
  /\ tk.pc = "check_token"
  /\ task' = [task EXCEPT ![t] =
       [tk EXCEPT !.pc = IF user_token_expired(credentials[tk.user], now)
                         THEN "refresh" ELSE "cache_read"]]
  /\ UNCHANGED <<now, stepsKey, queryLog, resetMarker, credentials, httpSent,
                 commands, probe>>

\* api::refresh_token: the error for an exchange that the upstream answers
\* with an error payload
exchange_error == "FitbitApiError"

\* DatabaseHandler::update_user_token: the error of a failed UPDATE, which `?`
\* converts with From<sqlx::Error>
store_error == "PostgresError"

\* Fitbit::refresh_token, called by Fitbit::get_steps or for a RefreshToken
\* command: get_user, the token exchange with the upstream and, when it
\* succeeds, update_user_token (outcome "store_failed": the exchange
\* succeeded and the UPDATE failed)
RefreshToken(t, outcome, expires_in) ==
  LET tk   == task[t]
      sent == [tk EXCEPT !.upstream = tk.upstream + 1, !.exchange = outcome]
  IN
  /\ tk.pc = "refresh"
  /\ IF tk.user \notin DOMAIN credentials
     THEN /\ outcome = "ok"
          /\ UNCHANGED credentials
          /\ task' = [task EXCEPT ![t] = Return(tk, Error("UserNotFound"))]
     ELSE IF outcome = "ok"
     THEN /\ credentials' = [credentials EXCEPT ![tk.user] =
                refreshed_credentials(@, now, expires_in)]
          /\ task' = [task EXCEPT ![t] =
                IF tk.cmd = "refresh" THEN Return(sent, Refreshed)
                ELSE [sent EXCEPT !.pc = "cache_read"]]
     ELSE IF outcome = "store_failed"
     THEN /\ UNCHANGED credentials
          /\ task' = [task EXCEPT ![t] = Return(sent, Error(store_error))]
     ELSE /\ UNCHANGED credentials
          /\ task' = [task EXCEPT ![t] = Return(sent, Error(exchange_error))]
  /\ UNCHANGED <<now, stepsKey, queryLog, resetMarker, httpSent, commands, probe>>

\* CacheHandler::get_steps: ZRANGEBYSCORE
CacheRead(t) ==
  LET tk == task[t] IN
  /\ tk.pc = "cache_read"
  /\ task' = [task EXCEPT ![t] =
       [tk EXCEPT !.pc = "cache_purge",
                  !.read = cache_read(stepsKey[tk.user], tk.start, tk.end)]]
  /\ UNCHANGED <<now, stepsKey, queryLog, resetMarker, credentials, httpSent,
                 commands, probe>>

\* CacheHandler::get_steps: ZREM of the expired entries (zrem_ok says whether
\* it succeeds), then the longest range; Fitbit::get_steps goes on to
\* get_live_range, which returns at once when nothing is cached
CachePurge(t, zrem_ok) ==
  LET tk      == task[t]
      expired == cache_expired(tk.read, now)
      cached  == cache_result(tk.read, tk.start, now)
      got     == [tk EXCEPT !.read = <<>>, !.cached = cached]
  IN
  /\ tk.pc = "cache_purge"
  /\ zrem_ok \in (IF expired = {} THEN {TRUE} ELSE BOOLEAN)
  /\ stepsKey' = IF expired = {} \/ ~zrem_ok THEN stepsKey
                 ELSE [stepsKey EXCEPT ![tk.user] = zrem(@, expired)]
  /\ task' = [task EXCEPT ![t] =
       IF ~zrem_ok
       THEN Return([tk EXCEPT !.read = <<>>], Error("CacheError"))
       ELSE IF DOMAIN cached = {}
       THEN EnterLoop(got, "no_cache", Range(tk.start, tk.end))
       ELSE [got EXCEPT !.pc = "plan_llen"]]
  /\ UNCHANGED <<now, queryLog, resetMarker, credentials, httpSent, commands, probe>>

\* Fitbit::get_live_range: get_user_queries
LiveRangeQueries(t) ==
  LET tk == task[t] IN
  /\ tk.pc = "plan_llen"
  /\ task' = [task EXCEPT ![t] =
       [tk EXCEPT !.pc = "plan_lindex",
                  !.queries = get_user_queries(queryLog[tk.user])]]
  /\ UNCHANGED <<now, stepsKey, queryLog, resetMarker, credentials, httpSent,
                 commands, probe>>

\* Fitbit::get_live_range: get_last_user_query
LiveRangeLastQuery(t) ==
  LET tk == task[t] IN
  /\ tk.pc = "plan_lindex"
  /\ task' = [task EXCEPT ![t] =
       [tk EXCEPT !.pc = "plan_reset",
                  !.last_query = get_last_user_query(queryLog[tk.user])]]
  /\ UNCHANGED <<now, stepsKey, queryLog, resetMarker, credentials, httpSent,
                 commands, probe>>

\* Fitbit::get_live_range: get_ratelimit_reset and the decision;
\* Fitbit::get_steps returns the cached steps on Ok(None)
LiveRangeDecide(t) ==
  LET tk   == task[t]
      plan == get_live_range(tk.queries, tk.last_query,
                             get_ratelimit_reset(resetMarker), now,
                             tk.start, tk.end, Some(SetMax(DOMAIN tk.cached)))
      seen == [tk EXCEPT !.branch = plan.branch, !.queries = 0, !.last_query = None,
                         !.planned = Some(tk.queries)]
  IN
  /\ tk.pc = "plan_reset"
  /\ task' = [task EXCEPT ![t] =
       IF plan.kind = "fetch" THEN EnterLoop(seen, plan.branch, Unwrap(plan.range))
       ELSE IF plan.kind = "none" THEN Return(seen, Steps(tk.cached))
       ELSE Return(seen, Error("RateLimitExceeded"))]
  /\ UNCHANGED <<now, stepsKey, queryLog, resetMarker, credentials, httpSent,
                 commands, probe>>

\* Fitbit::get_steps_for_range: check_ratelimit and the checks of the range
CheckRange(t) ==
  LET tk    == task[t]
      chunk == CurrentChunk(tk)
      err   == range_error(get_user_queries(queryLog[tk.user]),
                           chunk.start, chunk.end, Today(now))
  IN
  /\ tk.pc = "check_ratelimit"
  /\ task' = [task EXCEPT ![t] =
       IF IsSome(err) THEN ChunkFailed(tk, Unwrap(err))
       ELSE [tk EXCEPT !.pc = "api"]]
  /\ UNCHANGED <<now, stepsKey, queryLog, resetMarker, credentials, httpSent,
                 commands, probe>>

\* api::get_steps: the profile request and the steps request, and the
\* upstream's answer to the latter: an error, the steps with the
\* fitbit-rate-limit-reset header, or the steps without it
ApiGetSteps(t, outcome, value) ==
  LET tk    == task[t]
      chunk == CurrentChunk(tk)
      sent  == [tk EXCEPT !.upstream = tk.upstream + 2, !.fetches = tk.fetches + 1]
  IN
  /\ tk.pc = "api"
  /\ httpSent' = [httpSent EXCEPT ![tk.user] = @ + 2]
  /\ task' = [task EXCEPT ![t] =
       IF outcome \in {"ok", "no_header"}
       THEN [sent EXCEPT !.pc = "set_ratelimit",
                         !.fetched = UpstreamSteps(chunk.start, chunk.end, value),
                         !.header = IF outcome = "ok" THEN Some(UpstreamReset(now))
                                    ELSE None]
       ELSE ChunkFailed(sent, "FitbitApiError")]
  /\ UNCHANGED <<now, stepsKey, queryLog, resetMarker, credentials, commands, probe>>

\* A faulty variant of user_queries_key: the key without the user's id.
user_queries_key_shared(user_id) == "u1"

\* CacheHandler::add_user_query: format!("fitbit_user_queries:{}", user_id),
\* the key of the list, which is named here by the user it belongs to
user_queries_key(user_id) == user_id

\* Fitbit::set_ratelimit: the header is unwrapped, which panics when the
\* answer has none; then add_user_query, one MULTI/EXEC pipeline
SetRatelimit(t) ==
  LET tk   == task[t]
      next == [tk EXCEPT !.pending = DOMAIN tk.fetched]
  IN
  /\ tk.pc = "set_ratelimit"
  /\ IF IsSome(tk.header)
     THEN /\ resetMarker' = add_user_query_marker(now, Unwrap(tk.header))
          /\ queryLog' = [queryLog EXCEPT ![user_queries_key(tk.user)] =
                            add_user_query_log(@, now, now, Unwrap(tk.header))]
          /\ task' = [task EXCEPT ![t] =
               IF DOMAIN tk.fetched = {} THEN FinishChunk(next)
               ELSE [next EXCEPT !.pc = "cache_write"]]
     ELSE /\ UNCHANGED <<resetMarker, queryLog>>
          /\ task' = [task EXCEPT ![t] = [tk EXCEPT !.pc = "panicked"]]
  /\ UNCHANGED <<now, stepsKey, credentials, httpSent, commands, probe>>

\* Fitbit::cache: one add_steps of the loop over the fetched days (a HashMap
\* is iterated in no particular order); an error ends the command
CacheWrite(t, date, outcome) ==
  LET tk   == task[t]
      left == tk.pending \ {date}
      next == [tk EXCEPT !.pending = left]
  IN
  /\ tk.pc = "cache_write"
  /\ date \in tk.pending
  /\ IF outcome = "ok"
     THEN /\ stepsKey' = [stepsKey EXCEPT ![tk.user] =
                            add_steps(@, date, tk.fetched[date], now)]
          /\ task' = [task EXCEPT ![t] =
                        IF left = {} THEN FinishChunk(next) ELSE next]
     ELSE /\ UNCHANGED stepsKey
          /\ task' = [task EXCEPT ![t] = ChunkFailed(tk, "CacheError")]
  /\ UNCHANGED <<now, queryLog, resetMarker, credentials, httpSent, commands, probe>>

\* listen(): fitbit_client.reply writes the response under the coordination
\* key of the message, and the task ends
Reply(t) ==
  /\ task[t].pc = "reply"
  /\ task' = [task EXCEPT ![t] = TaskIdle]
  /\ probe' = IF probe.op = "message"
              THEN [probe EXCEPT !.state = "answered",
                                 !.replies = Append(@, Unwrap(task[t].result))]
              ELSE probe
  /\ UNCHANGED <<now, stepsKey, queryLog, resetMarker, credentials, httpSent,
                 commands>>

\* listen(): the task spawned for a message panicked; the runtime drops it
\* and nothing is written under the coordination key
TaskDropped(t) ==
  /\ task[t].pc = "panicked"
  /\ task' = [task EXCEPT ![t] = TaskIdle]
  /\ probe' = IF probe.op = "message" THEN [probe EXCEPT !.state = "lost"]
              ELSE probe
  /\ UNCHANGED <<now, stepsKey, queryLog, resetMarker, credentials, httpSent,
                 commands>>

\* The clock moves on while no command is in flight; Redis drops the keys
\* whose TTL has run out, and the upstream opens a new window on the hour.
Tick(later) ==
  /\ later \in Instants
  /\ later > now
  /\ \A t \in Tasks : task[t].pc = "idle"
  /\ now' = later
  /\ stepsKey' = [u \in Users |-> ExpireKey(stepsKey[u], later)]
  /\ queryLog' = [u \in Users |-> ExpireLog(queryLog[u], later)]
  /\ resetMarker' = IF resetMarker.expireAt <= later THEN NoMarker ELSE resetMarker
  /\ httpSent' = IF later \div WindowSecs = now \div WindowSecs THEN httpSent
                 ELSE [u \in Users |-> 0]
  /\ UNCHANGED <<credentials, task, commands>>

----------------------------------------------------------------------------
(* The engine: commands of one user, run one at a time *)

\* The response of the token endpoint carries expires_in seconds.
TokenLifetime == 10
\* Commands started in a behaviour of Spec.
MaxCommands == 2

ReqStarts == (StartDay - 2)..StartDay
ReqEnds == (StartDay - 1)..(StartDay + 1)

\* The instants at which a command of Spec can start.
EngineInstants == {i \in Instants : i % DaySecs \in {0, 20, 40}}

NoProbe == [op |-> "none"]

Init ==
  /\ now = StartTime
  /\ stepsKey = [u \in Users |-> EmptyKey]
  /\ queryLog = [u \in Users |-> EmptyLog]
  /\ resetMarker = NoMarker
  /\ credentials = [u \in Users |->
       [access |-> 0, refresh |-> 0, expiresAt |-> StartTime + TokenLifetime]]
  /\ task = [t \in Tasks |-> TaskIdle]
  /\ httpSent = [u \in Users |-> 0]
  /\ commands = 0
  /\ probe = NoProbe

\* No other command is in flight.
Sequential(t) == FreeSlot(t) /\ \A o \in Tasks \ {t} : task[o].pc = "idle"

Start(t) ==
  \E u \in Callers, start \in ReqStarts, end \in ReqEnds :
    /\ commands < MaxCommands
    /\ Sequential(t)
    /\ Dispatch(t, u, start, end)
    /\ commands' = commands + 1

Next ==
  \/ \E t \in Tasks : Start(t)
  \/ \E t \in Tasks : DbGetUser(t)
  \/ \E t \in Tasks : CheckTokenExpired(t)
  \/ \E t \in Tasks, o \in {"ok", "rejected"} : RefreshToken(t, o, TokenLifetime)
  \/ \E t \in Tasks : CacheRead(t)
  \/ \E t \in Tasks, z \in BOOLEAN : CachePurge(t, z)
  \/ \E t \in Tasks : LiveRangeQueries(t)
  \/ \E t \in Tasks : LiveRangeLastQuery(t)
  \/ \E t \in Tasks : LiveRangeDecide(t)
  \/ \E t \in Tasks : CheckRange(t)
  \/ \E t \in Tasks, o \in {"ok", "error", "no_header"}, v \in UpstreamCounts :
       ApiGetSteps(t, o, v)
  \/ \E t \in Tasks : SetRatelimit(t)
  \/ \E t \in Tasks, d \in ReqStarts \cup ReqEnds : CacheWrite(t, d, "ok")
  \/ \E t \in Tasks : Reply(t)
  \/ \E t \in Tasks : TaskDropped(t)
  \/ \E later \in EngineInstants : Tick(later) /\ UNCHANGED probe

Spec == Init /\ [][Next]_vars

----------------------------------------------------------------------------
(* The engine up to the quota: one user asks for the same day again and    *)
(* again inside one window of the upstream, and a write of the step cache  *)
(* may fail.                                                               *)

StartQuota(t) ==
  \E u \in Callers :
    /\ Sequential(t)
    /\ Dispatch(t, u, StartDay, StartDay)
    /\ UNCHANGED commands

NextQuota ==
  \/ \E t \in Tasks : StartQuota(t)
  \/ \E t \in Tasks : DbGetUser(t)
  \/ \E t \in Tasks : CheckTokenExpired(t)
  \/ \E t \in Tasks : CacheRead(t)
  \/ \E t \in Tasks, z \in BOOLEAN : CachePurge(t, z)
  \/ \E t \in Tasks : LiveRangeQueries(t)
  \/ \E t \in Tasks : LiveRangeLastQuery(t)
  \/ \E t \in Tasks : LiveRangeDecide(t)
  \/ \E t \in Tasks : CheckRange(t)
  \/ \E t \in Tasks, v \in UpstreamCounts : ApiGetSteps(t, "ok", v)
  \/ \E t \in Tasks : SetRatelimit(t)
  \/ \E t \in Tasks, o \in {"ok", "error"} : CacheWrite(t, StartDay, o)
  \/ \E t \in Tasks : Reply(t)

SpecQuota == Init /\ [][NextQuota]_vars

----------------------------------------------------------------------------
(* The engine over several days: commands for the last two days of the     *)
(* first day, so that cached entries outlive their embedded expiry while   *)
(* the key itself is kept alive by later writes.                           *)

\* Commands started in a behaviour of SpecThrottle.
MaxThrottleCommands == 3

ThrottleDates == (StartDay - 1)..StartDay

StartThrottle(t) ==
  \E u \in Callers, start \in ThrottleDates, end \in ThrottleDates :
    /\ commands < MaxThrottleCommands
    /\ Sequential(t)
    /\ Dispatch(t, u, start, end)
    /\ commands' = commands + 1

NextThrottle ==
  \/ \E t \in Tasks : StartThrottle(t)
  \/ \E t \in Tasks : DbGetUser(t)
  \/ \E t \in Tasks : CheckTokenExpired(t)
  \/ \E t \in Tasks, o \in {"ok", "rejected"} : RefreshToken(t, o, TokenLifetime)
  \/ \E t \in Tasks : CacheRead(t)
  \/ \E t \in Tasks, z \in BOOLEAN : CachePurge(t, z)
  \/ \E t \in Tasks : LiveRangeQueries(t)
  \/ \E t \in Tasks : LiveRangeLastQuery(t)
  \/ \E t \in Tasks : LiveRangeDecide(t)
  \/ \E t \in Tasks : CheckRange(t)
  \/ \E t \in Tasks, v \in UpstreamCounts : ApiGetSteps(t, "ok", v)
  \/ \E t \in Tasks : SetRatelimit(t)
  \/ \E t \in Tasks, d \in ThrottleDates : CacheWrite(t, d, "ok")
  \/ \E t \in Tasks : Reply(t)
  \/ \E later \in Instants : Tick(later) /\ UNCHANGED probe

SpecThrottle == Init /\ [][NextThrottle]_vars

----------------------------------------------------------------------------
(* The engine over more than a year: the live range is fetched in several   *)
(* calls, any of which the upstream or the cache may fail.                  *)

\* Commands started in a behaviour of SpecLong.
MaxLongCommands == 2

LongStart == StartDay - MaxChunkDays - 2
LongEnds == (StartDay - 1)..StartDay

StartLong(t) ==
  \E u \in Callers, end \in LongEnds :
    /\ commands < MaxLongCommands
    /\ Sequential(t)
    /\ Dispatch(t, u, LongStart, end)
    /\ commands' = commands + 1

NextLong ==
  \/ \E t \in Tasks : StartLong(t)
  \/ \E t \in Tasks : DbGetUser(t)
  \/ \E t \in Tasks : CheckTokenExpired(t)
  \/ \E t \in Tasks : RefreshToken(t, "ok", TokenLifetime)
  \/ \E t \in Tasks : CacheRead(t)
  \/ \E t \in Tasks : CachePurge(t, TRUE)
  \/ \E t \in Tasks : CheckRange(t)
  \/ \E t \in Tasks, o \in {"ok", "error", "no_header"}, v \in UpstreamCounts :
       ApiGetSteps(t, o, v)
  \/ \E t \in Tasks : SetRatelimit(t)
  \/ \E t \in Tasks, d \in FirstSync..StartDay, o \in {"ok", "error"} :
       CacheWrite(t, d, o)
  \/ \E t \in Tasks : Reply(t)
  \/ \E t \in Tasks : TaskDropped(t)
  \/ \E later \in EngineInstants : Tick(later) /\ UNCHANGED probe

SpecLong == Init /\ [][NextLong]_vars

----------------------------------------------------------------------------
(* Token refreshes, asked for by a command or made by getSteps: SpecRefresh *)

MaxRefreshCommands == 3

\* expires_in of the token endpoint's answers.
RefreshLifetimes == {TokenLifetime, 3 * TokenLifetime}

\* listen(): a RefreshToken command is decoded and execute_command starts
DispatchRefresh(t, u) ==
  /\ task[t].pc = "idle"
  /\ task' = [task EXCEPT ![t] = RefreshTask(u)]
  /\ UNCHANGED <<now, stepsKey, queryLog, resetMarker, credentials, httpSent, probe>>

StartRefresh(t) ==
  \E u \in Callers :
    /\ commands < MaxRefreshCommands
    /\ Sequential(t)
    /\ DispatchRefresh(t, u)
    /\ commands' = commands + 1

StartRefreshSteps(t) ==
  \E u \in Callers :
    /\ commands < MaxRefreshCommands
    /\ Sequential(t)
    /\ Dispatch(t, u, StartDay, StartDay)
    /\ commands' = commands + 1

NextRefresh ==
  \/ \E t \in Tasks : StartRefresh(t)
  \/ \E t \in Tasks : StartRefreshSteps(t)
  \/ \E t \in Tasks : DbGetUser(t)
  \/ \E t \in Tasks : CheckTokenExpired(t)
  \/ \E t \in Tasks, o \in {"ok", "rejected", "store_failed"},
        e \in RefreshLifetimes : RefreshToken(t, o, e)
  \/ \E t \in Tasks : CacheRead(t)
  \/ \E t \in Tasks : CachePurge(t, TRUE)
  \/ \E t \in Tasks : LiveRangeQueries(t)
  \/ \E t \in Tasks : LiveRangeLastQuery(t)
  \/ \E t \in Tasks : LiveRangeDecide(t)
  \/ \E t \in Tasks : CheckRange(t)
  \/ \E t \in Tasks, v \in UpstreamCounts : ApiGetSteps(t, "ok", v)
  \/ \E t \in Tasks : SetRatelimit(t)
  \/ \E t \in Tasks : CacheWrite(t, StartDay, "ok")
  \/ \E t \in Tasks : Reply(t)
  \/ \E later \in EngineInstants : Tick(later) /\ UNCHANGED probe

SpecRefresh == Init /\ [][NextRefresh]_vars

----------------------------------------------------------------------------
(* Commands of one user in flight together: SpecRace. listen() spawns a    *)
(* task per message and does not wait for it, so the steps of two commands *)
(* interleave at every await.                                              *)

MaxRaceCommands == 3

RaceStart == StartDay - 1
RaceEnds == {StartDay - 1, StartDay}

\* The instants at which a command of SpecRace can start.
RaceInstants == {StartTime + s : s \in Offsets}

StartRace(t) ==
  \E u \in Callers, end \in RaceEnds :
    /\ commands < MaxRaceCommands
    /\ FreeSlot(t)
    /\ Dispatch(t, u, RaceStart, end)
    /\ commands' = commands + 1

NextRace ==
  \/ \E t \in Tasks : StartRace(t)
  \/ \E t \in Tasks : DbGetUser(t)
  \/ \E t \in Tasks : CheckTokenExpired(t)
  \/ \E t \in Tasks : RefreshToken(t, "ok", TokenLifetime)
  \/ \E t \in Tasks : CacheRead(t)
  \/ \E t \in Tasks : CachePurge(t, TRUE)
  \/ \E t \in Tasks : LiveRangeQueries(t)
  \/ \E t \in Tasks : LiveRangeLastQuery(t)
  \/ \E t \in Tasks : LiveRangeDecide(t)
  \/ \E t \in Tasks : CheckRange(t)
  \/ \E t \in Tasks, v \in UpstreamCounts : ApiGetSteps(t, "ok", v)
  \/ \E t \in Tasks : SetRatelimit(t)
  \/ \E t \in Tasks, d \in RaceStart..StartDay : CacheWrite(t, d, "ok")
  \/ \E t \in Tasks : Reply(t)
  \/ \E later \in RaceInstants : Tick(later) /\ UNCHANGED probe

SpecRace == Init /\ [][NextRace]_vars

----------------------------------------------------------------------------
(* Commands of several users, and of a user without a row in fitbit_data,  *)
(* in flight together: SpecUsers                                           *)

MaxUserCommands == 3

\* A user id that has no row in fitbit_data.
Stranger == "u9"

\* The instants at which a command of SpecUsers can start: before and after
\* the stored tokens expire.
UserInstants == {i \in RaceInstants : i - StartTime \in {0, 20}}

StartUserSteps(t) ==
  \E u \in Users \cup {Stranger} :
    /\ commands < MaxUserCommands
    /\ FreeSlot(t)
    /\ Dispatch(t, u, StartDay, StartDay)
    /\ commands' = commands + 1

StartUserRefresh(t) ==
  \E u \in Users \cup {Stranger} :
    /\ commands < MaxUserCommands
    /\ FreeSlot(t)
    /\ DispatchRefresh(t, u)
    /\ commands' = commands + 1

NextUsers ==
  \/ \E t \in Tasks : StartUserSteps(t)
  \/ \E t \in Tasks : StartUserRefresh(t)
  \/ \E t \in Tasks : DbGetUser(t)
  \/ \E t \in Tasks : CheckTokenExpired(t)
  \/ \E t \in Tasks, o \in {"ok", "rejected"} : RefreshToken(t, o, TokenLifetime)
  \/ \E t \in Tasks : CacheRead(t)
  \/ \E t \in Tasks : CachePurge(t, TRUE)
  \/ \E t \in Tasks : LiveRangeQueries(t)
  \/ \E t \in Tasks : LiveRangeLastQuery(t)
  \/ \E t \in Tasks : LiveRangeDecide(t)
  \/ \E t \in Tasks : CheckRange(t)
  \/ \E t \in Tasks, v \in UpstreamCounts : ApiGetSteps(t, "ok", v)
  \/ \E t \in Tasks : SetRatelimit(t)
  \/ \E t \in Tasks : CacheWrite(t, StartDay, "ok")
  \/ \E t \in Tasks : Reply(t)
  \/ \E later \in UserInstants : Tick(later) /\ UNCHANGED probe

SpecUsers == Init /\ [][NextUsers]_vars

----------------------------------------------------------------------------
(* The listener: one message is taken from the work queue, decoded, and its *)
(* command run; the probe keeps the message and what is written under its  *)
(* coordination key.                                                        *)

\* A field of a message: a number written in decimal, or a text.
Number(n) == [int |-> n]
Text(chars) == [text |-> chars]
IsInt(item) == "int" \in DOMAIN item
Render(item) == IF IsInt(item) THEN ToChars(item.int) ELSE item.text

MsgIds == {"valid", "bad_char", "short"}
IdText(id) ==
  CASE id = "valid" -> <<"0", "1", "A", "R", "Z", "3", "N", "D", "E", "K", "T", "S", "V", "4", "R", "R", "F", "F", "Q", "6", "9", "G", "5", "F", "A", "V">>
    [] id = "bad_char" -> <<"0", "1", "A", "R", "Z", "3", "N", "D", "E", "K", "T", "S", "V", "4", "R", "R", "F", "F", "Q", "6", "9", "G", "5", "F", "A", "!">>
    [] id = "short" -> <<"0", "1", "A", "R", "Z", "3">>

MsgCommands == {GetStepsText, RefreshText, <<"d", "e", "l", "e", "t", "e">>}

\* Timestamps within the day before StartDay and within StartDay.
MsgStart == DateTs(StartDay - 1) + 3600
MsgEnd == DateTs(StartDay) + 7200

MsgPayloads ==
  {<<Text(UserText("u1")), Number(MsgStart), Number(MsgEnd)>>,
   <<Text(UserText("u9")), Number(MsgStart), Number(MsgEnd)>>,
   <<Text(UserText("u1")), Number(MsgStart)>>,
   <<Text(UserText("u1")), Text(<<"1", "2", "x">>), Number(MsgEnd)>>,
   <<Text(UserText("u1")), Number(MsgStart), Text(<<>>)>>,
   <<Text(UserText("u1")), Number(MsgStart), Number(MsgEnd), Number(MsgEnd)>>,
   <<Text(UserText("u1"))>>,
   <<Text(<<>>)>>}

\* Seconds from now to the expiry a message carries.
MsgTtlOffsets == {-1, 0, 60}
MsgTtls(nowTs) == {Number(nowTs + o) : o \in MsgTtlOffsets} \cup {Text(<<"s", "o", "o", "n">>)}

MsgFieldCounts == {1, 3, 4, 5}

ListenInstants == {StartTime, StartTime + 2 * TokenLifetime}

\* The message that the fields make: coordination_id:command:payload:TTL,
\* cut after n fields, a fifth field being one more copy of the TTL
Message(form) ==
  join(SubSeq(<<IdText(form.id), form.command,
                join([i \in DOMAIN form.payload |-> Render(form.payload[i])], ","),
                Render(form.ttl), Render(form.ttl)>>, 1, form.n), ":")

InitListen ==
  /\ now \in ListenInstants
  /\ stepsKey = [u \in Users |-> EmptyKey]
  /\ queryLog = [u \in Users |-> EmptyLog]
  /\ resetMarker = NoMarker
  /\ credentials = [u \in Users |->
       [access |-> 0, refresh |-> 0, expiresAt |-> StartTime + TokenLifetime]]
  /\ task = [t \in Tasks |-> TaskIdle]
  /\ httpSent = [u \in Users |-> 0]
  /\ commands = 0
  /\ \E id \in MsgIds, c \in MsgCommands, pl \in MsgPayloads, ttl \in MsgTtls(now),
        n \in MsgFieldCounts :
       LET form == [id |-> id, command |-> c, payload |-> pl, ttl |-> ttl, n |-> n]
       IN probe = [op |-> "message", form |-> form, message |-> Message(form),
                   state |-> "queued", replies |-> <<>>]

NextListen ==
  \/ \E t \in Tasks : Receive(t)
  \/ \E t \in Tasks : DbGetUser(t)
  \/ \E t \in Tasks : CheckTokenExpired(t)
  \/ \E t \in Tasks, o \in {"ok", "rejected"} : RefreshToken(t, o, TokenLifetime)
  \/ \E t \in Tasks : CacheRead(t)
  \/ \E t \in Tasks : CachePurge(t, TRUE)
  \/ \E t \in Tasks : CheckRange(t)
  \/ \E t \in Tasks, o \in {"ok", "error", "no_header"}, v \in UpstreamCounts :
       ApiGetSteps(t, o, v)
  \/ \E t \in Tasks : SetRatelimit(t)
  \/ \E t \in Tasks, d \in FirstSync..StartDay, o \in {"ok", "error"} :
       CacheWrite(t, d, o)
  \/ \E t \in Tasks : Reply(t)
  \/ \E t \in Tasks : TaskDropped(t)

SpecListen == InitListen /\ [][NextListen]_vars

----------------------------------------------------------------------------
(* The encoder alone: a Steps response is encoded, its mapping iterated in  *)
(* any order.                                                               *)

\* Days in the mapping of a Steps response.
MaxEncodeDays == 3

EncodeDates == StartDay..(StartDay + MaxEncodeDays - 1)
EncodeCounts ==
  {U32(0, 50), U32(0, 75), U32(0, 100), U32(0, I32Max), U32(1, 0), U32(1, I32Max)}

\* The orders in which a HashMap can yield the entries of a mapping.
Orders(m) ==
  {o \in [1..Cardinality(DOMAIN m) -> DOMAIN m] :
     \A i, j \in DOMAIN o : i # j => o[i] # o[j]}

InitEncode ==
  /\ now = StartTime
  /\ stepsKey = [u \in Users |-> EmptyKey]
  /\ queryLog = [u \in Users |-> EmptyLog]
  /\ resetMarker = NoMarker
  /\ credentials = [u \in Users |->
       [access |-> 0, refresh |-> 0, expiresAt |-> StartTime + TokenLifetime]]
  /\ task = [t \in Tasks |-> TaskIdle]
  /\ httpSent = [u \in Users |-> 0]
  /\ commands = 0
  /\ \E D \in SUBSET EncodeDates :
       \E m \in [D -> EncodeCounts] :
         \E o \in Orders(m) :
           probe = [op |-> "encode", steps |-> m,
                    entries |-> [i \in DOMAIN o |-> <<o[i], m[o[i]]>>],
                    wire |-> <<>>]

\* Fitbit::reply: utils::encode_response(response)
CallEncodeResponse ==
  /\ probe.op = "encode"
  /\ probe' = [probe EXCEPT
       !.op = "encoded",
       !.wire = encode_response([kind |-> "Steps", entries |-> probe.entries])]
  /\ UNCHANGED <<now, stepsKey, queryLog, resetMarker, credentials, task,
                 httpSent, commands>>

NextEncode == CallEncodeResponse

SpecEncode == InitEncode /\ [][NextEncode]_vars

----------------------------------------------------------------------------
(* The encoder on any content: two responses are encoded side by side, so   *)
(* that their wire strings can be compared.                                 *)

\* Characters in the text of an Error response.
MaxText == 2

TextAlphabet == {"a", "n", "\\", ",", ":", "\n"}

RECURSIVE TextsUpTo(_)
TextsUpTo(n) ==
  IF n = 0 THEN {<<>>}
  ELSE LET shorter == TextsUpTo(n - 1)
       IN shorter \cup {Append(t, c) : t \in shorter, c \in TextAlphabet}

\* The text of the example: a,b:c\d
ExampleText == <<"a", ",", "b", ":", "c", "\\", "d">>

ErrorTexts == TextsUpTo(MaxText) \cup {ExampleText}

EscapeResponses ==
  {[kind |-> "Error", text |-> t, entries |-> <<>>] : t \in ErrorTexts}
  \cup {[kind |-> "Refreshed", text |-> <<>>, entries |-> <<>>]}
  \cup {[kind |-> "Steps", text |-> <<>>, entries |-> e] :
          e \in {<<>>, <<<<StartDay, U32(0, 50)>>>>,
                 <<<<StartDay + 1, U32(0, 75)>>, <<StartDay, U32(1, 0)>>>>}}

InitEscape ==
  /\ now = StartTime
  /\ stepsKey = [u \in Users |-> EmptyKey]
  /\ queryLog = [u \in Users |-> EmptyLog]
  /\ resetMarker = NoMarker
  /\ credentials = [u \in Users |->
       [access |-> 0, refresh |-> 0, expiresAt |-> StartTime + TokenLifetime]]
  /\ task = [t \in Tasks |-> TaskIdle]
  /\ httpSent = [u \in Users |-> 0]
  /\ commands = 0
  /\ \E a \in EscapeResponses, b \in EscapeResponses :
       probe = [op |-> "escape", a |-> a, b |-> b, wire_a |-> <<>>, wire_b |-> <<>>]

\* Fitbit::reply: utils::encode_response(response), for either response
CallEncodeBoth ==
  /\ probe.op = "escape"
  /\ probe' = [probe EXCEPT !.op = "escaped",
                            !.wire_a = encode_response(probe.a),
                            !.wire_b = encode_response(probe.b)]
  /\ UNCHANGED <<now, stepsKey, queryLog, resetMarker, credentials, task,
                 httpSent, commands>>

NextEscape == CallEncodeBoth

SpecEscape == InitEscape /\ [][NextEscape]_vars

----------------------------------------------------------------------------
(* The step cache alone: direct calls of add_steps and get_steps *)

CacheDates == StartDay..(StartDay + 2)
\* The instants at which the cache is called.
CacheInstants ==
  {i \in Instants : i % DaySecs = 0 \/ i = StartTime + MaxDays * DaySecs + 20}

\* CacheHandler::add_steps
CallAddSteps(u, date, count) ==
  /\ probe = NoProbe
  /\ commands < MaxWrites
  /\ commands' = commands + 1
  /\ stepsKey' = [stepsKey EXCEPT ![u] = add_steps(@, date, count, now)]
  /\ probe' = NoProbe
  /\ UNCHANGED <<now, queryLog, resetMarker, credentials, task, httpSent>>

\* CacheHandler::get_steps; zrem says whether the ZREM of the purge succeeds
CallGetSteps(u, start, end, zrem_ok) ==
  LET read    == cache_read(stepsKey[u], start, end)
      expired == cache_expired(read, now)
      failed  == expired # {} /\ ~zrem_ok
      after   == IF expired = {} \/ failed THEN stepsKey[u]
                 ELSE zrem(stepsKey[u], expired)
  IN
  /\ probe = NoProbe
  /\ zrem_ok \in (IF expired = {} THEN {TRUE} ELSE BOOLEAN)
  /\ stepsKey' = [stepsKey EXCEPT ![u] = after]
  /\ probe' = [op |-> "get_steps", user |-> u, start |-> start, end |-> end,
               at |-> now, pre |-> stepsKey[u].members, post |-> after.members,
               ok |-> ~failed,
               result |-> IF failed THEN EmptyMap
                          ELSE cache_result(read, start, now)]
  /\ UNCHANGED <<now, queryLog, resetMarker, credentials, task, httpSent, commands>>

\* The caller has seen what get_steps returned.
Returned ==
  /\ probe # NoProbe
  /\ probe' = NoProbe
  /\ UNCHANGED <<now, stepsKey, queryLog, resetMarker, credentials, task,
                 httpSent, commands>>

NextCache ==
  \/ \E u \in Callers, d \in CacheDates, c \in StepValues : CallAddSteps(u, d, c)
  \/ \E u \in Callers, s \in CacheDates, e \in CacheDates, z \in BOOLEAN :
       CallGetSteps(u, s, e, z)
  \/ Returned
  \/ \E later \in CacheInstants : probe = NoProbe /\ Tick(later) /\ UNCHANGED probe

SpecCache == Init /\ [][NextCache]_vars

\* The step cache as its entries age: the writes carry the count the upstream
\* reports.
NextExpiry ==
  \/ \E u \in Callers, d \in CacheDates, c \in UpstreamCounts : CallAddSteps(u, d, c)
  \/ \E u \in Callers, s \in CacheDates, e \in CacheDates, z \in BOOLEAN :
       CallGetSteps(u, s, e, z)
  \/ Returned
  \/ \E later \in CacheInstants : probe = NoProbe /\ Tick(later) /\ UNCHANGED probe

SpecExpiry == Init /\ [][NextExpiry]_vars

----------------------------------------------------------------------------
(* CacheHandler::get_steps on the members as Redis returns them: SpecEntry *)

\* str::parse::<u32>: an optional plus sign and at least one digit, nothing
\* else (the literals met here have at most ten digits and none overflows)
parse_u32(s) ==
  LET body == IF s # <<>> /\ Head(s) = "+" THEN Tail(s) ELSE s
  IN IF body = <<>> \/ \E i \in DOMAIN body : ~IsDigit(body[i]) THEN None
     ELSE Some(NatFrom(body, 1, 0))

\* The closure given to filter_map: the member is split at its colons and
\* its first three fields are indexed and parsed with unwrap(); a field that
\* is missing or does not parse makes the task panic.
decode_entry(value) ==
  LET split_values == split(value, ":")
      field(k) == IF k <= Len(split_values) THEN split_values[k] ELSE <<"?">>
      steps == parse_u32(field(1))
      timestamp == parse_i64(field(2))
      expire == parse_i64(field(3))
  IN IF \/ Len(split_values) < 3
        \/ steps = None \/ timestamp = None \/ expire = None
     THEN [panic |-> TRUE, steps |-> 0, date |-> 0, expire |-> 0]
     ELSE [panic |-> FALSE, steps |-> Unwrap(steps), date |-> Unwrap(timestamp),
           expire |-> Unwrap(expire)]

\* CacheHandler::get_steps from the reply of ZRANGEBYSCORE on: a reply that
\* does not convert to Vec<String> (ErrorKind::TypeError) gives the empty
\* mapping, any other error is returned, and the members are decoded,
\* filtered by their expiry, purged and cut to the longest range.
get_steps_decoded(reply, start_date, nowTs) ==
  IF reply.kind = "TypeError"
  THEN [kind |-> "ok", steps |-> EmptyMap, expired |-> {}]
  ELSE IF reply.kind = "IoError"
  THEN [kind |-> "err", steps |-> EmptyMap, expired |-> {}]
  ELSE LET decoded == [i \in DOMAIN reply.members |-> decode_entry(reply.members[i])]
       IN IF \E i \in DOMAIN decoded : decoded[i].panic
          THEN [kind |-> "panic", steps |-> EmptyMap, expired |-> {}]
          ELSE [kind |-> "ok",
                steps |-> cache_result(decoded, start_date, nowTs),
                expired |-> {reply.members[i] :
                               i \in {j \in DOMAIN decoded :
                                        is_expired(decoded[j], nowTs)}}]

\* The text of a member, fields joined by colons.
EntryText(fields) == join(fields, ":")

EntryDate == ToChars(DateTs(StartDay))
EntryNextDate == ToChars(DateTs(StartDay + 1))
EntryFresh == ToChars(StartTime + CacheTtl)
EntryStale == ToChars(StartTime - 1)

\* Members written by add_steps.
GoodEntries ==
  {EntryText(<<ToChars(100), EntryDate, EntryFresh>>),
   EntryText(<<ToChars(75), EntryNextDate, EntryFresh>>),
   EntryText(<<ToChars(50), EntryDate, EntryStale>>)}

\* Members of another shape: a count, a date or an expiry that is no
\* number, a missing field, an empty member, a negative count, a fourth
\* field.
DriftedEntries ==
  {EntryText(<<<<"o", "n", "e">>, EntryDate, EntryFresh>>),
   EntryText(<<ToChars(100), <<"d", "a", "y">>, EntryFresh>>),
   EntryText(<<ToChars(100), EntryDate, <<"n", "e", "v", "e", "r">>>>),
   EntryText(<<ToChars(100), EntryDate>>),
   EntryText(<<ToChars(100)>>),
   <<>>,
   EntryText(<<<<"-", "1">>, EntryDate, EntryFresh>>),
   EntryText(<<ToChars(100), EntryDate, EntryFresh, <<"v", "2">>>>)}

MaxEntries == 2

EntryReplies ==
  {[kind |-> "TypeError", members |-> <<>>], [kind |-> "IoError", members |-> <<>>]}
  \cup {[kind |-> "members", members |-> m] :
          m \in UNION {[1..n -> GoodEntries \cup DriftedEntries] : n \in 0..MaxEntries}}

InitEntry ==
  /\ now = StartTime
  /\ stepsKey = [u \in Users |-> EmptyKey]
  /\ queryLog = [u \in Users |-> EmptyLog]
  /\ resetMarker = NoMarker
  /\ credentials = [u \in Users |->
       [access |-> 0, refresh |-> 0, expiresAt |-> StartTime + TokenLifetime]]
  /\ task = [t \in Tasks |-> TaskIdle]
  /\ httpSent = [u \in Users |-> 0]
  /\ commands = 0
  /\ \E r \in EntryReplies :
       probe = [op |-> "input", reply |-> r, start |-> StartDay,
                outcome |-> [kind |-> "", steps |-> EmptyMap, expired |-> {}]]

\* CacheHandler::get_steps
CallGetStepsDecoded ==
  /\ probe.op = "input"
  /\ probe' = [probe EXCEPT
       !.op = "get_steps_decoded",
       !.outcome = get_steps_decoded(probe.reply, probe.start, now)]
  /\ UNCHANGED <<now, stepsKey, queryLog, resetMarker, credentials, task,
                 httpSent, commands>>

NextEntry == CallGetStepsDecoded

SpecEntry == InitEntry /\ [][NextEntry]_vars

----------------------------------------------------------------------------
(* The range reconciler alone: get_live_range applied to what it reads *)

\* Days before today a request may start from.
PlanDays == 3

PlanStarts == (StartDay - PlanDays)..StartDay
PlanEnds == (StartDay - PlanDays + 1)..(StartDay + 1)
\* LLEN of the user's query log.
PlanQueries == {0, 1, 2, Quota - 1, Quota, Quota + 1}
\* Seconds since the user's last query (LINDEX 0).
PlanSince == {0, 10, 25, 40, 3000}
\* fitbit_ratelimit_reset relative to now; the key lives 2 seconds longer than
\* the instant it stores.
PlanUntil == {-1, 0, 25, 1800, WindowSecs - ResetBuffer}

\* The last date of a cached prefix of [start, end]: dates cached are not in
\* the future.
PlanCacheEnds(start, end) ==
  {None} \cup {Some(d) : d \in start..Min(end, StartDay)}

PlanInput(q, lq, rr, s, e, ce) ==
  [op |-> "input", queries |-> q, last_query |-> lq, ratelimit_reset |-> rr,
   range_start |-> s, range_end |-> e, cache_end |-> ce,
   plan |-> Plan("", "", None)]

InitPlan ==
  /\ now = StartTime
  /\ stepsKey = [u \in Users |-> EmptyKey]
  /\ queryLog = [u \in Users |-> EmptyLog]
  /\ resetMarker = NoMarker
  /\ credentials = [u \in Users |->
       [access |-> 0, refresh |-> 0, expiresAt |-> StartTime + TokenLifetime]]
  /\ task = [t \in Tasks |-> TaskIdle]
  /\ httpSent = [u \in Users |-> 0]
  /\ commands = 0
  /\ \E q \in PlanQueries, s \in PlanStarts, e \in PlanEnds :
       \E lq \in (IF q = 0 THEN {None} ELSE {Some(now - d) : d \in PlanSince}),
          rr \in {0} \cup {now + d : d \in PlanUntil},
          ce \in PlanCacheEnds(s, e) :
         probe = PlanInput(q, lq, rr, s, e, ce)

\* Fitbit::get_live_range
CallGetLiveRange ==
  /\ probe.op = "input"
  /\ probe' = [probe EXCEPT
       !.op = "get_live_range",
       !.plan = get_live_range(probe.queries, probe.last_query,
                               probe.ratelimit_reset, now, probe.range_start,
                               probe.range_end, probe.cache_end)]
  /\ UNCHANGED <<now, stepsKey, queryLog, resetMarker, credentials, task,
                 httpSent, commands>>

NextPlan == CallGetLiveRange

SpecPlan == InitPlan /\ [][NextPlan]_vars

----------------------------------------------------------------------------
(* The computation of request_period on its own: SpecSpacing *)

\* fitbit_ratelimit_reset relative to now, from long before now to twice the
\* largest u16.
SpacingUntil == {-70000, -1, 0, 1, 25, 1800, WindowSecs - ResetBuffer,
                 U16Max - 1, U16Max, U16Max + 1, U16Max + 2, 2 * U16Max}
\* Lengths of the user's query log.
SpacingQueries == 0..(Quota + 1)

InitSpacing ==
  /\ now = StartTime
  /\ stepsKey = [u \in Users |-> EmptyKey]
  /\ queryLog = [u \in Users |-> EmptyLog]
  /\ resetMarker = NoMarker
  /\ credentials = [u \in Users |->
       [access |-> 0, refresh |-> 0, expiresAt |-> StartTime + TokenLifetime]]
  /\ task = [t \in Tasks |-> TaskIdle]
  /\ httpSent = [u \in Users |-> 0]
  /\ commands = 0
  /\ \E q \in SpacingQueries \ {Quota}, d \in SpacingUntil :
       probe = [op |-> "input", queries |-> q, ratelimit_reset |-> now + d,
                period |-> 0]

\* Fitbit::get_live_range, from the reading of the reset marker to
\* request_period
CallMinSpacing ==
  /\ probe.op = "input"
  /\ probe' = [probe EXCEPT
       !.op = "min_spacing",
       !.period = min_spacing(probe.queries, probe.ratelimit_reset, now)]
  /\ UNCHANGED <<now, stepsKey, queryLog, resetMarker, credentials, task,
                 httpSent, commands>>

NextSpacing == CallMinSpacing

SpecSpacing == InitSpacing /\ [][NextSpacing]_vars

----------------------------------------------------------------------------
(* The chunker alone: the loop of Fitbit::get_steps over a live range of   *)
(* `difference` days, each call classified by get_steps_for_range.         *)

\* Live ranges of up to MaxChunks full windows and a remainder.
MaxChunks == 3

ChunkDiffs == (-2)..(MaxChunks * MaxChunkDays + 1)
ChunkStarts == {StartDay - MaxChunks * MaxChunkDays - 1, StartDay - 1}

InitChunk ==
  /\ now = StartTime
  /\ stepsKey = [u \in Users |-> EmptyKey]
  /\ queryLog = [u \in Users |-> EmptyLog]
  /\ resetMarker = NoMarker
  /\ credentials = [u \in Users |->
       [access |-> 0, refresh |-> 0, expiresAt |-> StartTime + TokenLifetime]]
  /\ task = [t \in Tasks |-> TaskIdle]
  /\ httpSent = [u \in Users |-> 0]
  /\ commands = 0
  /\ \E s \in ChunkStarts, d \in ChunkDiffs :
       probe = [op |-> "chunking", start |-> s, difference |-> d, i |-> 0,
                chunks |-> <<>>]

\* Fitbit::get_steps: one iteration of the loop, up to the period that
\* get_steps_for_range chooses for the range it is given
ChunkStep ==
  /\ probe.op = "chunking"
  /\ LET range == chunk_range(probe.start, probe.difference, probe.i)
         call  == [range |-> range, period |-> period_of(range.end - range.start)]
     IN probe' = [probe EXCEPT
          !.op = IF probe.i + 1 < requests(probe.difference)
                 THEN "chunking" ELSE "chunked",
          !.i = probe.i + 1,
          !.chunks = Append(probe.chunks, call)]
  /\ UNCHANGED <<now, stepsKey, queryLog, resetMarker, credentials, task,
                 httpSent, commands>>

NextChunk == ChunkStep

SpecChunk == InitChunk /\ [][NextChunk]_vars

----------------------------------------------------------------------------
(* Properties: the rate limit *)

\* C1: once a user's query log holds 145 entries in the window, no upstream
\* request is issued for that user: a command that finds 145 entries ends with
\* RateLimitExceeded, and a 146th query is never recorded.
C1_HardCap ==
  /\ \A u \in Users : get_user_queries(queryLog[u]) <= Quota
  /\ \A t \in Tasks :
       /\ task[t].pc = "api" => get_user_queries(queryLog[task[t].user]) < Quota
       /\ (task[t].pc = "reply"
             /\ get_user_queries(Unwrap(task[t].pre).log) = Quota)
          => task[t].result = Some(Error("RateLimitExceeded"))

\* C2: the HTTP requests sent upstream for a user within one rate-limit
\* window never exceed the quota of 145, every request of every live fetch
\* counted, recorded in the query log or not.
C2_RequestsWithinQuota == \A u \in Users : httpSent[u] <= Quota

----------------------------------------------------------------------------
(* Properties: the step cache *)

CachedDates(members) == {DateOf(m.date) : m \in members}

\* The maximal run of consecutive dates of S that begins at start, in [start, end].
MaximalRun(S, start, end) == {d \in start..end : \A k \in start..d : k \in S}

Stale(members, nowTs) == {m \in members : m.expire < nowTs}

InRange(m, start, end) == DateTs(start) <= m.date /\ m.date <= DateTs(end)

\* Every date returned carries the count of an unexpired entry of that date.
ReturnedUnexpired ==
  \A d \in DOMAIN probe.result :
    \E m \in probe.pre \ Stale(probe.pre, probe.at) :
      DateOf(m.date) = d /\ m.steps = probe.result[d]

\* C3: with every entry unexpired, get_steps(user, start, end) returns
\* exactly the maximal run of consecutive cached dates that begins at start
\* and lies in [start, end], each date with a count cached for it.
C3_PrefixRead ==
  (probe.op = "get_steps" /\ probe.ok /\ Stale(probe.pre, probe.at) = {})
  => /\ DOMAIN probe.result =
          MaximalRun(CachedDates(probe.pre), probe.start, probe.end)
     /\ ReturnedUnexpired

\* C4: add_steps is an upsert per user and date: the store never holds two
\* entries for the same user and date.
C4_Upsert ==
  \A u \in Users : \A m1, m2 \in stepsKey[u].members :
    m1.date = m2.date => m1 = m2

\* C5 (as stated): an expired entry is never in the mapping get_steps
\* returns, and after a get_steps read for a user none of that user's entries
\* whose expiry has passed is left in the store.
C5_AllExpiredPurged ==
  probe.op = "get_steps"
  => /\ ReturnedUnexpired
     /\ Stale(probe.post, probe.at) = {}

\* C5 (amended): an expired entry is never in the mapping get_steps returns;
\* a get_steps read that succeeds removes exactly the expired entries dated
\* within [start, end] and leaves every other entry, expired ones outside
\* the range included; a read whose ZREM fails removes nothing.
C5_ExpiredPurgedInRange ==
  probe.op = "get_steps"
  => LET stale == {m \in Stale(probe.pre, probe.at) :
                     InRange(m, probe.start, probe.end)}
     IN IF probe.ok
        THEN /\ ReturnedUnexpired
             /\ probe.post = probe.pre \ stale
        ELSE /\ stale # {}
             /\ probe.post = probe.pre

\* A read that purges an expired entry in its range, returns a fresh one, and
\* leaves an expired entry outside its range in the store.
C5_Witness ==
  /\ probe.op = "get_steps"
  /\ probe.ok
  /\ DOMAIN probe.result # {}
  /\ probe.post # probe.pre
  /\ Stale(probe.post, probe.at) # {}

----------------------------------------------------------------------------
(* Properties: pacing *)

\* The last query of the log was made at least the pacing interval ago.
Paced(log, marker) ==
  /\ log.entries # <<>>
  /\ since_last_query(Head(log.entries), now)
       >= min_spacing(get_user_queries(log), get_ratelimit_reset(marker), now)

\* C6 (as stated): every live fetch for a user who has a recorded query in
\* the window is issued only when the seconds since the last query are at
\* least the pacing interval, whatever is cached and for every chunk.
C6_EveryFetchPaced ==
  \A t \in Tasks :
    (task[t].pc = "api" /\ queryLog[task[t].user].entries # <<>>)
    => Paced(queryLog[task[t].user], resetMarker)

\* C6 (amended): a live fetch planned for a request whose start date is
\* cached, for a user who has a recorded query in the window, is issued
\* (its first chunk) only when the seconds since the last query are at least
\* the pacing interval.
C6_CachedFetchPaced ==
  \A t \in Tasks :
    (/\ task[t].pc = "api"
     /\ task[t].i = 0
     /\ DOMAIN task[t].cached # {}
     /\ queryLog[task[t].user].entries # <<>>)
    => Paced(queryLog[task[t].user], resetMarker)

\* A fetch goes out for a request with a cached prefix, a positive pacing
\* interval having passed since the user's last query.
C6_Witness ==
  \E t \in Tasks :
    /\ task[t].pc = "api"
    /\ task[t].i = 0
    /\ DOMAIN task[t].cached # {}
    /\ queryLog[task[t].user].entries # <<>>
    /\ min_spacing(get_user_queries(queryLog[task[t].user]),
                   get_ratelimit_reset(resetMarker), now) > 0

\* What the cache read of task t's command returns, from the store the
\* command found.
CachedPrefix(tk) ==
  cache_result(cache_read(Unwrap(tk.pre).steps, tk.start, tk.end), tk.start, now)

\* The command of task t found a cached prefix for its request, a budget not
\* exhausted, and a last query made less than the pacing interval ago.
Throttled(tk) ==
  LET pre == Unwrap(tk.pre) IN
  /\ DOMAIN CachedPrefix(tk) # {}
  /\ get_user_queries(pre.log) # Quota
  /\ pre.log.entries # <<>>
  /\ ~Paced(pre.log, pre.marker)

\* C7 (as stated): a throttled get_steps makes no upstream request, leaves
\* the user's query log, the reset marker and the step cache unchanged, and
\* returns exactly the cached prefix.
C7_ThrottledFrame ==
  \A t \in Tasks :
    (task[t].pc = "reply" /\ Throttled(task[t]))
    => LET tk == task[t]  pre == Unwrap(tk.pre) IN
       /\ tk.upstream = 0
       /\ queryLog[tk.user] = pre.log
       /\ resetMarker = pre.marker
       /\ stepsKey[tk.user] = pre.steps
       /\ tk.result = Some(Steps(CachedPrefix(tk)))

\* C7 (amended): a throttled get_steps sends no steps request upstream, its
\* only upstream request being the token exchange when the stored token has
\* expired; it leaves the query log and the reset marker unchanged, removes
\* from the step cache exactly the expired entries dated within the request,
\* and returns exactly the cached prefix; when the token exchange or the
\* removal of the expired entries fails it returns that error and has left
\* the step cache as it was.
C7_ThrottledServesCache ==
  \A t \in Tasks :
    (task[t].pc = "reply" /\ Throttled(task[t]))
    => LET tk      == task[t]
           pre     == Unwrap(tk.pre)
           expired == user_token_expired(pre.cred, now)
           stale   == {m \in Stale(pre.steps.members, now) :
                         InRange(m, tk.start, tk.end)}
       IN
       /\ tk.fetches = 0
       /\ tk.upstream = IF expired THEN 1 ELSE 0
       /\ queryLog[tk.user] = pre.log
       /\ resetMarker = pre.marker
       /\ IF tk.result = Some(Steps(CachedPrefix(tk)))
          THEN /\ stepsKey[tk.user].members = pre.steps.members \ stale
               /\ stepsKey[tk.user].expireAt = pre.steps.expireAt
               /\ expired => credentials[tk.user] # pre.cred
          ELSE /\ stepsKey[tk.user] = pre.steps
               /\ \/ /\ expired
                     /\ tk.result = Some(Error("FitbitApiError"))
                     /\ credentials[tk.user] = pre.cred
                  \/ /\ stale # {}
                     /\ tk.result = Some(Error("CacheError"))
                     /\ expired => credentials[tk.user] # pre.cred

\* A throttled command that exchanged its expired token, purged an expired
\* entry of its range and returned the cached prefix.
C7_Witness ==
  \E t \in Tasks :
    /\ task[t].pc = "reply"
    /\ Throttled(task[t])
    /\ task[t].upstream = 1
    /\ task[t].result = Some(Steps(CachedPrefix(task[t])))
    /\ stepsKey[task[t].user] # Unwrap(task[t].pre).steps

----------------------------------------------------------------------------
(* Properties: the range reconciler and the chunker *)

\* get_live_range was applied with a cached prefix, a budget not exhausted
\* and a last query made at least the pacing interval ago.
EnoughTimeElapsed ==
  /\ probe.op = "get_live_range"
  /\ IsSome(probe.cache_end)
  /\ IsSome(probe.last_query)
  /\ probe.queries # Quota
  /\ since_last_query(Unwrap(probe.last_query), now)
       >= min_spacing(probe.queries, probe.ratelimit_reset, now)

\* The requested end is today and the cached prefix ends today or yesterday.
LastTwoDaysCase ==
  /\ probe.range_end = Today(now)
  /\ Unwrap(probe.cache_end) \in {Today(now), Today(now) - 1}

\* C8: when enough time has elapsed since the last query, the requested end
\* is today and the cached prefix ends today or yesterday, get_live_range
\* returns exactly [today - 1, today], whatever the requested start.
C8_LastTwoDays ==
  (EnoughTimeElapsed /\ LastTwoDaysCase)
  => /\ probe.plan.kind = "fetch"
     /\ probe.plan.range = Some(Range(Today(now) - 1, Today(now)))

\* The last two days are planned for a request that starts before them.
C8_Witness ==
  /\ EnoughTimeElapsed
  /\ LastTwoDaysCase
  /\ probe.range_start < Today(now) - 1
  /\ probe.plan.range = Some(Range(Today(now) - 1, Today(now)))

\* C9: when enough time has elapsed since the last query and the last two
\* days case does not apply, get_live_range returns no fetch if the cached
\* prefix ends at the requested end, and exactly [cache_end, range_end]
\* otherwise.
C9_CurrentOrTail ==
  (EnoughTimeElapsed /\ ~LastTwoDaysCase)
  => IF Unwrap(probe.cache_end) = probe.range_end
     THEN probe.plan.kind = "none" /\ probe.plan.range = None
     ELSE /\ probe.plan.kind = "fetch"
          /\ probe.plan.range =
               Some(Range(Unwrap(probe.cache_end), probe.range_end))

\* The tail after the cached prefix is planned for a request that ends today.
C9_Witness ==
  /\ EnoughTimeElapsed
  /\ ~LastTwoDaysCase
  /\ probe.range_end = Today(now)
  /\ probe.plan.range = Some(Range(Unwrap(probe.cache_end), probe.range_end))
  /\ Unwrap(probe.cache_end) < probe.range_end

\* C10: the ranges requested from the upstream for a live range R are
\* consecutive windows of at most 364 days, the i-th starting 364 * i days
\* after R.start and ending 364 days later or at R.end, whichever is first.
C10_ChunksCoverLiveRange ==
  \A t \in Tasks :
    task[t].pc = "api"
    => LET R     == Unwrap(task[t].live)
           chunk == CurrentChunk(task[t])
       IN /\ chunk.start = R.start + MaxChunkDays * task[t].i
          /\ chunk.end = Min(chunk.start + MaxChunkDays, R.end)
          /\ chunk.end - chunk.start <= MaxChunkDays

\* The period the upstream is asked for a range that spans k days.
PeriodOfSpan(k) ==
  CASE k = 0 -> Some("1d")
    [] k \in 1..6 -> Some("1w")
    [] k \in 7..27 -> Some("1m")
    [] k \in 28..89 -> Some("3m")
    [] k \in 90..179 -> Some("6m")
    [] k \in 180..364 -> Some("1y")
    [] OTHER -> None

\* C11: a live range of d days is fetched in one call when d <= 364, in two
\* when d = 365 and in ceil(d / 364) when d > 364, whatever its start; a call
\* for k days asks for 1d when k = 0, 1w for 1..6, 1m for 7..27, 3m for
\* 28..89, 6m for 90..179 and 1y for 180..364, and no call spans more than
\* 364 days.
C11_ChunkCountAndPeriod ==
  probe.op = "chunked"
  => LET d == probe.difference
         n == Len(probe.chunks)
     IN /\ d <= 364 => n = 1
        /\ d = 365 => n = 2
        /\ d > 364 => 364 * (n - 1) < d /\ d <= 364 * n
        /\ \A k \in 1..n :
             LET span == probe.chunks[k].range.end - probe.chunks[k].range.start
             IN /\ span <= 364
                /\ d >= 0 => span >= 0 /\ probe.chunks[k].period = PeriodOfSpan(span)

\* A range of 365 days: a call for a year, then a call for a week.
C11_Witness ==
  /\ probe.op = "chunked"
  /\ probe.difference = 365
  /\ Len(probe.chunks) = 2
  /\ probe.chunks[1].period = Some("1y")
  /\ probe.chunks[2].period = Some("1w")

\* C12: every getSteps whose range has start > end or end > today ends in
\* DateOutOfRange, and no request (step fetch or token exchange) has been sent
\* to the upstream by then, whatever is cached, logged or stored as the
\* token's expiry.
C12_BadRangeRefusedOffline ==
  \A t \in Tasks :
    LET tk == task[t] IN
    (/\ tk.pc \in {"reply", "panicked"}
     /\ tk.cmd = "get_steps"
     /\ tk.start > tk.end \/ tk.end > Today(now))
    => /\ tk.result = Some(Error("DateOutOfRange"))
       /\ tk.upstream = 0

\* C18: a getSteps that starts after the stored expiry of the user's token
\* sends a steps request only after a token exchange that succeeded and whose
\* tokens were stored; when the exchange is refused the command sends no
\* steps request and ends with the error.
C18_RefreshBeforeFetch ==
  \A t \in Tasks :
    LET tk == task[t] IN
    (/\ tk.cmd = "get_steps"
     /\ tk.pc # "get_user"
     /\ Unwrap(tk.pre).cred.expiresAt < now)
    => /\ tk.pc \in {"api", "set_ratelimit", "cache_write"} \/ tk.fetches > 0
            => /\ tk.exchange = "ok"
               /\ credentials[tk.user].access # Unwrap(tk.pre).cred.access
               /\ credentials[tk.user].expiresAt >= now
       /\ tk.exchange = "rejected"
            => /\ tk.fetches = 0
               /\ tk.pc = "reply"
               /\ Unwrap(tk.result).kind = "Error"

\* A steps request is about to go out for a command that found the token
\* expired and exchanged it.
C18_Witness ==
  \E t \in Tasks :
    /\ task[t].pc = "api"
    /\ Unwrap(task[t].pre).cred.expiresAt < now
    /\ task[t].exchange = "ok"

\* C19: a command whose token exchange the upstream rejects ends with the
\* error RejectedToken, after that one exchange and with the stored
\* credentials as they were.
C19_RejectedToken ==
  \A t \in Tasks :
    LET tk == task[t] IN
    tk.exchange = "rejected"
    => /\ tk.pc = "reply"
       /\ tk.result = Some(Error("RejectedToken"))
       /\ tk.upstream = 1
       /\ credentials[tk.user] = Unwrap(tk.pre).cred

\* The days of the live range of a task, and whether its loop of calls ended
\* before the last call was done.
LiveDays(tk) == Unwrap(tk.live).end - Unwrap(tk.live).start
LoopAborted(tk) ==
  /\ tk.pc \in {"reply", "panicked"}
  /\ IsSome(tk.live)
  /\ tk.i * MaxChunkDays < LiveDays(tk) \/ tk.i = 0

ChunkErrors == {"RateLimitExceeded", "DateOutOfRange", "FitbitApiError", "CacheError"}

C14_FailedFetchLeavesCache ==
  \A t \in Tasks :
    LET tk == task[t] IN
    (/\ LoopAborted(tk)
     /\ tk.pc = "reply"
     /\ Unwrap(tk.result).kind = "Error")
    => stepsKey[tk.user] = Unwrap(tk.pre).steps

\* What the fields of the message under observation say, read off the fields
\* themselves.
MsgIdValid == probe.form.id = "valid"
MsgFourFields == probe.form.n = 4
MsgTtlIsInt == IsInt(probe.form.ttl)
MsgExpired == MsgFourFields /\ MsgTtlIsInt /\ probe.form.ttl.int < now
MsgGetSteps ==
  /\ probe.form.command = GetStepsText
  /\ Len(probe.form.payload) = 3
  /\ IsInt(probe.form.payload[2])
  /\ IsInt(probe.form.payload[3])
MsgRefresh ==
  /\ probe.form.command = RefreshText
  /\ Len(probe.form.payload) = 1
MsgWellFormed == MsgFourFields /\ MsgTtlIsInt /\ (MsgGetSteps \/ MsgRefresh)
NoCommandRun == \A t \in Tasks : task[t].cmd = ""

\* C15: a message with a valid coordination id and an expiry that has not
\* passed gets exactly one reply under its coordination key, whatever fails
\* while it is decoded or its command runs: its task never ends without a
\* reply, and a reply is written once.
C15_ExactlyOneReply ==
  (/\ probe.op = "message"
   /\ MsgIdValid /\ MsgFourFields /\ MsgTtlIsInt /\ ~MsgExpired)
  => /\ probe.state \notin {"dropped", "lost"}
     /\ Len(probe.replies) <= 1
     /\ probe.state = "answered" => Len(probe.replies) = 1

\* C16: a message of four fields with a valid coordination id is dropped,
\* with no reply and no command run, when its expiry is earlier than now,
\* whatever its command and payload; when its expiry is now or later it is
\* decoded and answered.
C16_ExpiredDroppedElseAnswered ==
  (/\ probe.op = "message"
   /\ MsgIdValid /\ MsgFourFields /\ MsgTtlIsInt)
  => IF probe.form.ttl.int < now
     THEN /\ probe.state \in {"queued", "dropped"}
          /\ probe.replies = <<>>
          /\ NoCommandRun
     ELSE /\ probe.state \in {"queued", "decoded", "answered"}
          /\ probe.state = "answered" => Len(probe.replies) = 1

WireFields(wire) ==
  LET content == SubSeq(wire, 3, Len(wire))
      raw == split(content, ",")
  IN IF content = <<>> THEN <<>>
     ELSE [i \in DOMAIN raw |->
             IF i < Len(raw) THEN SubSeq(raw[i], 1, Len(raw[i]) - 1) ELSE raw[i]]

\* The k-th date of a mapping, in ascending order.
KthDate(m, k) ==
  CHOOSE d \in DOMAIN m : Cardinality({e \in DOMAIN m : e < d}) = k - 1

\* C20: the encoding of a Steps response carries the step counts only, one
\* per date of the mapping, in ascending order of date whatever the order in
\* which the mapping is iterated; a count that does not fit a signed 32-bit
\* integer is written as 0 and every other count as it is.
C20_StepsEncoding ==
  probe.op = "encoded"
  => LET fields == WireFields(probe.wire) IN
     /\ SubSeq(probe.wire, 1, 2) = <<"0", ":">>
     /\ Len(fields) = Cardinality(DOMAIN probe.steps)
     /\ \A k \in DOMAIN fields :
          LET count == probe.steps[KthDate(probe.steps, k)]
          IN parse_i64(fields[k]) = Some(IF count.hi > 0 THEN 0 ELSE count.lo)

\* The mapping 01: 100, 02: 75, 03: 50, iterated as 01, 03, 02, is encoded
\* as 100, 75, 50.
C20_Witness ==
  /\ probe.op = "encoded"
  /\ probe.entries = <<<<StartDay, U32(0, 100)>>, <<StartDay + 2, U32(0, 50)>>,
                       <<StartDay + 1, U32(0, 75)>>>>
  /\ WireFields(probe.wire) = <<<<"1", "0", "0">>, <<"7", "5">>, <<"5", "0">>>>

\* The content of a response before it is escaped.
ContentOf(response) ==
  CASE response.kind = "Steps" -> steps_content(response.entries)
    [] response.kind = "Refreshed" -> <<"r", "e", "f", "r", "e", "s", "h", "e", "d">>
    [] response.kind = "Error" -> response.text

\* The two-character escape of a character, or the character itself.
EscapeOf(c) ==
  CASE c = "\\" -> <<"\\", "\\">>
    [] c = "," -> <<"\\", ",">>
    [] c = ":" -> <<"\\", ":">>
    [] c = "\n" -> <<"\\", "n">>
    [] OTHER -> <<c>>

RECURSIVE Escaped(_)
Escaped(content) ==
  IF content = <<>> THEN <<>> ELSE EscapeOf(Head(content)) \o Escaped(Tail(content))

\* What a reader recovers from an escaped text, reading from the left; None
\* when a colon, comma or newline stands unescaped or an escape is cut short.
RECURSIVE Unescape(_)
Unescape(text) ==
  IF text = <<>> THEN Some(<<>>)
  ELSE IF Head(text) \in {",", ":", "\n"} THEN None
  ELSE IF Head(text) # "\\"
  THEN LET rest == Unescape(Tail(text))
       IN IF rest = None THEN None ELSE Some(<<Head(text)>> \o Unwrap(rest))
  ELSE IF Len(text) < 2 \/ text[2] \notin {"\\", ",", ":", "n"} THEN None
  ELSE LET rest == Unescape(SubSeq(text, 3, Len(text)))
           c == IF text[2] = "n" THEN "\n" ELSE text[2]
       IN IF rest = None THEN None ELSE Some(<<c>> \o Unwrap(rest))

\* C21: the wire form of a response is its indication, "0" for Steps and
\* Refreshed and "1" for Error, a colon, and the content with backslash,
\* comma, colon and newline replaced by their two-character escapes; the
\* content part has no unescaped colon, comma or newline, unescaping it gives
\* the content back, and two different contents never have the same wire
\* form.
C21_WireForm ==
  probe.op = "escaped"
  => LET part == SubSeq(probe.wire_a, 3, Len(probe.wire_a)) IN
     /\ Len(probe.wire_a) >= 2
     /\ probe.wire_a[1] = (IF probe.a.kind = "Error" THEN "1" ELSE "0")
     /\ probe.wire_a[2] = ":"
     /\ part = Escaped(ContentOf(probe.a))
     /\ Unescape(part) = Some(ContentOf(probe.a))
     /\ ContentOf(probe.a) # ContentOf(probe.b)
          => SubSeq(probe.wire_b, 3, Len(probe.wire_b)) # part

\* The content a,b:c\d has been encoded as a\,b\:c\\d.
C21_Witness ==
  /\ probe.op = "escaped"
  /\ probe.a.kind = "Error"
  /\ probe.a.text = ExampleText
  /\ probe.wire_a = <<"1", ":">> \o <<"a", "\\", ",", "b", "\\", ":", "c", "\\", "\\", "d">>

\* C24: the reconciler refuses with RateLimitExceeded whenever it computes
\* the pacing interval (a cached prefix exists) for a user whose query log
\* holds 145 entries or more; it returns neither a range to fetch nor "serve
\* the cache".
C24_ExhaustedAlwaysRefused ==
  (/\ probe.op = "get_live_range"
   /\ IsSome(probe.cache_end)
   /\ probe.queries >= Quota)
  => /\ probe.plan.kind = "err"
     /\ probe.plan.branch = "exhausted"

\* The quotient a / b rounded up, b > 0.
CeilQuot(a, b) == IF a >= 0 THEN (a + b - 1) \div b ELSE -((-a) \div b)

\* The pacing interval as the sentence states it: the quotient rounded up,
\* then clamped to 0..65535.
ClampedSpacing(until, remaining) ==
  LET q == CeilQuot(until, remaining)
  IN IF q < 0 THEN 0 ELSE IF q > U16Max THEN U16Max ELSE q

\* C25: with a positive remaining budget the pacing interval is
\* min(65535, max(0, ceil(secondsUntilReset / remaining))) for every integer
\* secondsUntilReset, negative ones and ones above 65535 included.
C25_SpacingClamped ==
  (probe.op = "min_spacing" /\ probe.queries < Quota)
  => probe.period = ClampedSpacing(probe.ratelimit_reset - now,
                                   Quota - probe.queries)

\* The plan when pacing plays no part: it depends on the cached prefix, the
\* requested range, today's date and whether the user has queried before.
UnpacedPlan(has_last, range_start, range_end, cache_end, today) ==
  IF ~IsSome(cache_end) \/ ~has_last
  THEN Some(Range(range_start, range_end))
  ELSE IF range_end = today /\ Unwrap(cache_end) - range_end > -2
  THEN Some(Range(today - 1, today))
  ELSE IF range_end = Unwrap(cache_end) THEN None
  ELSE Some(Range(Unwrap(cache_end), range_end))

\* C29: when the key fitbit_ratelimit_reset is absent and the budget is not
\* exhausted, the pacing interval is 0 and the plan is never "too soon": it
\* is the plan that the cached prefix and the requested range give, however
\* recent the last query is.
C29_AbsentMarkerNeverPaces ==
  (/\ probe.op = "get_live_range"
   /\ probe.ratelimit_reset = get_ratelimit_reset(NoMarker)
   /\ probe.queries < Quota)
  => /\ min_spacing(probe.queries, probe.ratelimit_reset, now) = 0
     /\ probe.plan.branch # "throttled"
     /\ probe.plan.kind # "err"
     /\ probe.plan.range = UnpacedPlan(IsSome(probe.last_query),
                                       probe.range_start, probe.range_end,
                                       probe.cache_end, Today(now))

\* Marker absent, a query made this very second, a cached prefix that stops
\* before the requested end: the tail is fetched.
C29_Witness ==
  /\ probe.op = "get_live_range"
  /\ probe.ratelimit_reset = get_ratelimit_reset(NoMarker)
  /\ probe.queries \in 1..(Quota - 1)
  /\ probe.last_query = Some(now)
  /\ IsSome(probe.cache_end)
  /\ probe.plan.branch = "tail"
  /\ probe.plan.kind = "fetch"

\* Fitbit::refresh_token has returned Ok: the RefreshToken command is answered
\* with Refreshed, or getSteps goes on to read the cache.
RefreshSucceeded(before, after) ==
  \/ after.pc = "cache_read"
  \/ after.pc = "reply" /\ after.result = Some(Refreshed)

\* C30: a token refresh returns success only when the user's record holds a
\* new access token, a new refresh token and the expiry now + expiresIn; when
\* the exchange with the upstream or the writing of the record fails, it
\* returns an error and the record is the one it found.
C30_RefreshPersistsOrFails ==
  [][\A t \in Tasks :
       (task[t].pc = "refresh" /\ task'[t].pc # "refresh")
       => LET u == task[t].user
              old == credentials[u]
              new == credentials'[u]
          IN IF RefreshSucceeded(task[t], task'[t])
             THEN /\ new.access # old.access
                  /\ new.access # task[t].token
                  /\ new.refresh # old.refresh
                  /\ new.expiresAt - now \in RefreshLifetimes
                  /\ task'[t].exchange = "ok"
             ELSE /\ credentials' = credentials
                  /\ task'[t].pc = "reply"
                  /\ task'[t].result \in {Some(Error(exchange_error)),
                                          Some(Error(store_error))}]_vars

\* After one refresh that succeeded, a second one whose exchange succeeded
\* and whose UPDATE failed: it is answered with the error and the record is
\* the one the first refresh wrote.
C30_Witness ==
  \E t \in Tasks :
    /\ task[t].pc = "reply"
    /\ task[t].cmd = "refresh"
    /\ task[t].exchange = "store_failed"
    /\ task[t].result = Some(Error(store_error))
    /\ credentials[task[t].user].access = 1
    /\ credentials[task[t].user].refresh = 1
    /\ credentials[task[t].user] = Unwrap(task[t].pre).cred

\* C27: a cache read whose removal of the expired entries fails still
\* succeeds and returns the contiguous prefix of the unexpired entries: no
\* get_steps on the cache that finds expired entries ends in an error; what
\* it returns starts at the requested start whenever that date is cached
\* unexpired.
C27_PurgeFailureTolerated ==
  (/\ probe.op = "get_steps"
   /\ \E m \in Stale(probe.pre, probe.at) : InRange(m, probe.start, probe.end))
  => /\ probe.ok
     /\ ReturnedUnexpired
     /\ probe.start \in DOMAIN probe.result
          <=> \E m \in probe.pre \ Stale(probe.pre, probe.at) :
                m.date = DateTs(probe.start)

\* A text that reads as an integer.
Numeric(text) ==
  LET body == IF text # <<>> /\ Head(text) \in {"+", "-"} THEN Tail(text) ELSE text
  IN body # <<>> /\ \A i \in DOMAIN body : IsDigit(body[i])

\* A stored entry that cannot be decoded: a field is missing or is no
\* number.
Undecodable(member) ==
  LET fields == split(member, ":")
  IN Len(fields) < 3 \/ \E k \in 1..3 : ~Numeric(fields[k])

\* C28: when the stored entries are of the wrong type, or one of them lacks
\* a field or has a field that is no number, the cache read succeeds with
\* the empty mapping; it does not abort the command.
C28_UndecodableIsNoData ==
  (/\ probe.op = "get_steps_decoded"
   /\ \/ probe.reply.kind = "TypeError"
      \/ \E i \in DOMAIN probe.reply.members : Undecodable(probe.reply.members[i]))
  => /\ probe.outcome.kind = "ok"
     /\ probe.outcome.steps = EmptyMap

\* api::get_steps sends two requests for one live fetch: the profile and the
\* steps.
RequestsPerFetch == 2

\* The live fetches made for user u in the upstream's current window.
FetchesInWindow(u) == httpSent[u] \div RequestsPerFetch

\* C23: once the getSteps commands made so far have ended, the user's query
\* log is as long as the number of live fetches made for the user in the
\* window, every fetch that reached the upstream being recorded once; and a
\* command answered with steps it fetched has recorded each of its fetches.
C23_LogCountsFetches ==
  /\ (\A t \in Tasks : task[t].pc = "idle")
       => \A u \in Users : get_user_queries(queryLog[u]) = FetchesInWindow(u)
  /\ \A t \in Tasks :
       (/\ task[t].pc = "reply"
        /\ task[t].fetches > 0
        /\ task[t].result = Some(Steps(task[t].steps)))
       => get_user_queries(queryLog[task[t].user])
            >= get_user_queries(Unwrap(task[t].pre).log) + task[t].fetches

\* Task t is about to send the first fetch of a command that found a cached
\* prefix, less than the pacing interval after the user's last recorded
\* query.
UnpacedFetch(t) ==
  /\ task[t].pc = "api"
  /\ task[t].i = 0
  /\ DOMAIN task[t].cached # {}
  /\ queryLog[task[t].user].entries # <<>>
  /\ ~Paced(queryLog[task[t].user], resetMarker)

\* C22: two getSteps commands of one user in flight together can both pass
\* the budget check before either records its query, and both fetch, the
\* second fetch going out less than the pacing interval after the first.
\* As a property of every state: a fetch planned against a cached prefix
\* goes out unpaced only in that interleaving, that is when another command
\* has recorded a query after this one read the log to plan.
C22_UnpacedOnlyByRace ==
  \A t \in Tasks :
    UnpacedFetch(t)
    => /\ IsSome(task[t].planned)
       /\ Unwrap(task[t].planned) < get_user_queries(queryLog[task[t].user])
       /\ Head(queryLog[task[t].user].entries) = now

\* Both commands read the same log length when they planned; one has
\* fetched and recorded its query this second, the other is sending its
\* fetch although the pacing interval is positive.
C22_Witness ==
  \E t, o \in Tasks :
    /\ t # o
    /\ task[t].user = task[o].user
    /\ UnpacedFetch(t)
    /\ IsSome(task[o].planned)
    /\ task[o].planned = task[t].planned
    /\ task[o].fetches = 1
    /\ task[o].pc \in {"cache_write", "reply"}
    /\ get_user_queries(queryLog[task[t].user]) = Unwrap(task[t].planned) + 1
    /\ Head(queryLog[task[t].user].entries) = now
    /\ min_spacing(get_user_queries(queryLog[task[t].user]),
                   get_ratelimit_reset(resetMarker), now) > 0

\* C26: recording a query is one step for every other command: whenever the
\* query log or the reset marker changes while the clock stands, a command
\* that holds the header value w of its fetch has pushed now on the head of
\* its user's log, set the log's TTL to w seconds and set the marker to
\* now + w - 2, all in that step, and no other log has changed.
C26_RecordQueryAtomic ==
  [][((queryLog' # queryLog \/ resetMarker' # resetMarker) /\ now' = now)
     => \E t \in Tasks :
          /\ task[t].pc = "set_ratelimit"
          /\ IsSome(task[t].header)
          /\ LET u == task[t].user
                 w == Unwrap(task[t].header)
             IN /\ queryLog'[u].entries = <<now>> \o queryLog[u].entries
                /\ queryLog'[u].expireAt = now + w
                /\ resetMarker'.value = Some(now + w - ResetBuffer)
                /\ resetMarker'.expireAt = now + w
                /\ \A v \in Users \ {u} : queryLog'[v] = queryLog[v]]_vars

\* A command has just recorded its fetch, in the middle of the three reads
\* by which another command of the same user plans: log, marker and TTL
\* carry the one recording.
C26_Witness ==
  \E t, o \in Tasks :
    /\ t # o
    /\ task[t].pc = "cache_write"
    /\ task[t].fetches = 1
    /\ task[o].pc = "plan_lindex"
    /\ task[o].user = task[t].user
    /\ task[o].queries + 1 = get_user_queries(queryLog[task[t].user])
    /\ Head(queryLog[task[t].user].entries) = now
    /\ queryLog[task[t].user].expireAt = now + Unwrap(task[t].header)
    /\ resetMarker.value = Some(now + Unwrap(task[t].header) - ResetBuffer)

\* C31: when getSteps found the stored token expired and the refresh
\* succeeded, every live fetch the command sends afterwards presents the
\* access token the refresh stored, not the one read from the credential
\* store before the refresh.
C31_FetchPresentsNewToken ==
  \A t \in Tasks :
    (/\ task[t].pc = "api"
     /\ task[t].cmd = "get_steps"
     /\ task[t].exchange = "ok")
    => /\ task[t].token # Unwrap(task[t].pre).cred.access
       /\ task[t].token = credentials[task[t].user].access

\* The response to a command for a user id without a credential record.
UserNotFound == Some(Error("UserNotFound"))

\* C32: a GetSteps or RefreshToken command for a user id that has no
\* credential record is answered with the error UserNotFound and does
\* nothing else: each of its steps sends nothing upstream and leaves the step
\* cache, every query log, the reset marker and the credential store as they
\* are.
C32_UnknownUserNoEffect ==
  [][\A t \in Tasks :
       (/\ task[t].cmd \in {"get_steps", "refresh"}
        /\ task[t].user \notin DOMAIN credentials
        /\ task'[t] # task[t])
       => /\ stepsKey' = stepsKey
          /\ queryLog' = queryLog
          /\ resetMarker' = resetMarker
          /\ credentials' = credentials
          /\ httpSent' = httpSent
          /\ \/ /\ task'[t].pc = "reply"
                /\ task'[t].result = UserNotFound
                /\ task'[t].upstream = 0
             \/ /\ task[t].pc = "reply"
                /\ task[t].result = UserNotFound
                /\ task'[t].pc = "idle"]_vars

\* A GetSteps command for the stranger is about to be answered with
\* UserNotFound while another user has cached steps, a recorded query and a
\* command in flight.
C32_Witness ==
  \E t, o \in Tasks :
    /\ task[t].pc = "reply"
    /\ task[t].cmd = "get_steps"
    /\ task[t].user = Stranger
    /\ task[t].result = UserNotFound
    /\ task[t].upstream = 0
    /\ task[o].pc = "cache_write"
    /\ \E u \in Users : stepsKey[u].members # {} /\ queryLog[u].entries # <<>>

\* The user a step of task t works for.
StepUser(before, after) == IF before.pc = "idle" THEN after.user ELSE before.user

\* C33: a step of a command of user A, in any interleaving with other
\* commands, leaves the step cache entries, the query log and the credential
\* record of every other user B as they are; what it can change for a
\* command of B is the process-wide reset marker only.
C33_OtherUsersUntouched ==
  [][\A t \in Tasks :
       task'[t] # task[t]
       => \A B \in Users \ {StepUser(task[t], task'[t])} :
            /\ stepsKey'[B] = stepsKey[B]
            /\ queryLog'[B] = queryLog[B]
            /\ credentials'[B] = credentials[B]]_vars

\* A command of one user has fetched, recorded its query and been cached
\* while a command of another user is in flight: the other user's stores are
\* the ones that command found, and the reset marker is not.
C33_Witness ==
  \E t, o \in Tasks :
    /\ task[t].user \in Users
    /\ task[o].user \in Users
    /\ task[t].user # task[o].user
    /\ task[t].pc = "reply"
    /\ task[t].fetches = 1
    /\ stepsKey[task[t].user] # Unwrap(task[t].pre).steps
    /\ queryLog[task[t].user] # Unwrap(task[t].pre).log
    /\ task[o].cmd = "get_steps"
    /\ task[o].pc = "cache_read"
    /\ stepsKey[task[o].user] = Unwrap(task[o].pre).steps
    /\ queryLog[task[o].user] = Unwrap(task[o].pre).log
    /\ credentials[task[o].user].refresh = Unwrap(task[o].pre).cred.refresh
    /\ resetMarker # Unwrap(task[o].pre).marker

====
